---- MODULE Spec2Model ----
(***************************************************************************)
(* A model of the AWS cost monitor bot: the settings object (config.py),   *)
(* the threshold / alert-level classification (cost_monitor_bot.py,        *)
(* slack_notifier.py), the anomaly heuristic (aws_cost_monitor.py) and the *)
(* service / resource filters (config.py).                                 *)
(*                                                                         *)
(* Amounts are integers (whole currency units) and every comparison of a   *)
(* quotient is made by exact cross-multiplication, so the model follows    *)
(* the arithmetic of the code without the rounding of binary floats.       *)
(***************************************************************************)
EXTENDS Integers, Sequences, FiniteSets, TLC

VARIABLES
    pc,                       \* position of main(): constructed, configured, checked, ...
    cost_threshold,           \* Config.cost_threshold
    alert_levels,             \* Config.alert_levels: critical / warning / info percentages
    cost_data,                \* the dict check_costs returns, NoData before
    alert,                    \* what send_alert / send_cost_alert did, NoAlert before
    anomaly_sensitivity,      \* Config.anomaly_sensitivity
    enable_anomaly_detection, \* Config.enable_anomaly_detection
    daily_costs,              \* the series get_daily_costs(30) returned
    anomalies,                \* the list check_cost_anomalies returned
    anomaly_status,           \* how check_cost_anomalies ended: not_run, disabled, ok, or
                              \* the exception it caught and turned into []
    enabled_services,         \* Config.enabled_services
    disabled_services,        \* Config.disabled_services
    resource_arns,            \* Config.resource_arns
    excluded_arns,            \* Config.excluded_arns
    ret,                      \* the last filter call: its name, argument and return value
    tag_filters,              \* Config.tag_filters, as the list of its (key, value) items
    request,                  \* the keyword arguments of the last billing API call
    env,                      \* the environment variables the settings are read from
    config_data,              \* the contents of the --config file
    args,                     \* the parsed command line
    check_interval_hours,     \* Config.check_interval_hours
    enable_weekend_monitoring, \* Config.enable_weekend_monitoring
    flags,                    \* the action flags of the command line
    at,                       \* where the process is in main() and the daemon
    caller,                   \* who called the running run_check
    exit_code,                \* the exit code the process ends with
    failure,                  \* the failure the run has met, "none" if none
    current_day,              \* the day run_check read from the clock
    queries,                  \* billing queries issued by the current cycle
    posts,                    \* messages the current cycle tried to post
    result,                   \* what the last run_check returned
    send,                     \* the notifier call made by the latest step
    raised,                   \* the exception raised in the latest step
    polls,                    \* sleeps the polling loop has started
    last_sleep,               \* seconds of the last sleep of the loop
    initial_check,            \* progress of the daemon's first run_check
    api,                      \* how each billing query of the cycle ends
    billing,                  \* the amounts the billing API holds
    query_results,            \* what the queries of check_costs returned
    service_thresholds,       \* Config.service_thresholds
    service_details,          \* what get_service_specific_costs returned
    credentials,              \* the required credentials that are set
    notification_frequency,   \* NOTIFICATION_FREQUENCY
    enable_detailed_breakdown,\* ENABLE_DETAILED_BREAKDOWN
    jobs,                     \* the jobs schedule_monitoring registered
    due,                      \* jobs of this run_pending still to be run
    running,                  \* scheduled job in execution -> its call stack
    loop,                     \* where start_monitoring is
    today,                    \* what datetime.now() gives during this poll
    activity                  \* billing queries and chat posts of this poll

vars == <<pc, cost_threshold, alert_levels, cost_data, alert,
          anomaly_sensitivity, enable_anomaly_detection, daily_costs, anomalies,
          anomaly_status, enabled_services, disabled_services, resource_arns,
          excluded_arns, ret, tag_filters, request, env, config_data, args,
          check_interval_hours, enable_weekend_monitoring, flags, at, caller,
          exit_code, failure, current_day, queries, posts, result, send,
          raised, polls, last_sleep, initial_check, api, billing,
          query_results, service_thresholds, service_details, credentials,
          notification_frequency, enable_detailed_breakdown, jobs, due,
          running, loop, today, activity>>

alertVars == <<pc, cost_threshold, alert_levels, cost_data, alert>>
anomalyVars == <<anomaly_sensitivity, enable_anomaly_detection, daily_costs,
                 anomalies, anomaly_status>>
filterVars == <<enabled_services, disabled_services, resource_arns, excluded_arns, ret>>
queryVars == <<tag_filters, request>>

\* what the classification, the anomaly heuristic and the filters never touch
settingsVars == <<env, config_data, args, check_interval_hours,
                  enable_weekend_monitoring>>
cycleVars == <<current_day, queries, posts, result>>
loopVars == <<polls, last_sleep, initial_check>>
mainVars == <<flags, at, caller, exit_code, failure, cycleVars, send, raised,
              loopVars>>
schedVars == <<notification_frequency, enable_detailed_breakdown, jobs, due,
               running, loop, today, activity>>
dataVars == <<api, billing, query_results, service_thresholds,
              service_details, credentials, schedVars>>
restVars == <<queryVars, settingsVars, mainVars, dataVars>>

(***************************************************************************)
(* Bounds of the model.                                                    *)
(***************************************************************************)
MaxCostTens == 12     \* the billing API reports 0, 10, ..., 10 * MaxCostTens
MaxFlat == 13         \* longest constant run that opens a daily series
MaxTail == 4          \* longest free tail that closes a daily series
MaxListLen == 2       \* longest configured allow / deny list
MaxArnLen == 3        \* longest resource identifier

(***************************************************************************)
(* Defaults of the settings object.                                        *)
(***************************************************************************)
DefaultThreshold == 100
DefaultCritical == 100
DefaultWarning == 80
DefaultInfo == 50

DefaultAlertLevels ==
    [critical |-> DefaultCritical, warning |-> DefaultWarning, info |-> DefaultInfo]

LevelKeys == {"critical", "warning", "info"}

\* Values COST_THRESHOLD / --threshold may carry: float() accepts any sign.
Thresholds == {-DefaultThreshold, 0, 50, DefaultThreshold}

\* Values ALERT_*_PERCENT / --alert-levels may carry: no order is enforced.
AlertPercents == {DefaultInfo, DefaultWarning, DefaultCritical}

Costs == {10 * c : c \in 0..MaxCostTens}

NoData == [status |-> "none"]
NoAlert == [status |-> "none"]

(***************************************************************************)
(* Config.__init__: the settings read from the environment.                *)
(***************************************************************************)
ParseAlertLevels(crit, warn, info) ==
    [critical |-> crit, warning |-> warn, info |-> info]

(***************************************************************************)
(* percentage = (cost / threshold) * 100, kept as an exact fraction.       *)
(* Python raises ZeroDivisionError for threshold = 0 (also for floats).    *)
(***************************************************************************)
\* Mutant: the quotient left as a fraction, not multiplied by 100.
PercentageAsFraction(cost, threshold) == [num |-> cost, den |-> threshold]

Percentage(cost, threshold) == [num |-> cost * 100, den |-> threshold]

\* percentage >= cutoff, for a percentage with den # 0
PctGE(p, cutoff) ==
    IF p.den > 0 THEN p.num >= cutoff * p.den ELSE p.num <= cutoff * p.den

\* percentage = value, for a percentage with den # 0
PctEq(p, value) == p.num = value * p.den

(***************************************************************************)
(* SlackNotifier.send_cost_alert: the alert level, with a config present   *)
(* (the bot always passes its Config).                                     *)
(***************************************************************************)
\* percentage > cutoff, for a percentage with den # 0
PctGT(p, cutoff) ==
    IF p.den > 0 THEN p.num > cutoff * p.den ELSE p.num < cutoff * p.den

\* Mutant: the cutoffs compared with > instead of >=.
AlertLevelExclusive(p, levels) ==
    IF PctGT(p, levels.critical) THEN "critical"
    ELSE IF PctGT(p, levels.warning) THEN "warning"
    ELSE IF PctGT(p, levels.info) THEN "info"
    ELSE "normal"

\* Mutant: the chain of tests started at the lowest tier.
AlertLevelLowestFirst(p, levels) ==
    IF PctGE(p, levels.info) THEN "info"
    ELSE IF PctGE(p, levels.warning) THEN "warning"
    ELSE IF PctGE(p, levels.critical) THEN "critical"
    ELSE "normal"

AlertLevel(p, levels) ==
    IF PctGE(p, levels.critical) THEN "critical"
    ELSE IF PctGE(p, levels.warning) THEN "warning"
    ELSE IF PctGE(p, levels.info) THEN "info"
    ELSE "normal"

\* The whole call: the division sits inside the try, so a zero threshold (or a
\* rejected post, slack_ok = FALSE) makes the call return False.
SendCostAlert(current_cost, threshold, levels, slack_ok) ==
    IF threshold = 0
    THEN [status |-> "failed", level |-> "none", error |-> "ZeroDivisionError"]
    ELSE IF slack_ok
    THEN [status |-> "posted",
          level |-> AlertLevel(Percentage(current_cost, threshold), levels),
          error |-> "none"]
    ELSE [status |-> "failed",
          level |-> AlertLevel(Percentage(current_cost, threshold), levels),
          error |-> "SlackApiError"]

(***************************************************************************)
(* CostMonitorBot.check_costs: the result dict, or the exception it        *)
(* re-raises. has_anomalies and service_exceeded stand for the anomaly     *)
(* list and the per-service details the billing queries produced.          *)
(***************************************************************************)
CheckCostsResult(current_cost, threshold, has_anomalies, service_exceeded) ==
    IF threshold = 0
    THEN [status |-> "raised", error |-> "ZeroDivisionError"]
    ELSE [status |-> "ok",
          current_cost |-> current_cost,
          threshold |-> threshold,
          threshold_exceeded |-> current_cost > threshold,
          percentage_of_threshold |-> Percentage(current_cost, threshold),
          anomalies |-> has_anomalies,
          service_exceeded |-> service_exceeded]

\* Mutant: a cycle that saw no spend at all alerts too.
ShouldAlertOnNoSpend(data, levels) ==
    \/ data.threshold_exceeded
    \/ PctGE(data.percentage_of_threshold, levels.warning)
    \/ data.anomalies
    \/ data.service_exceeded
    \/ data.current_cost = 0

\* CostMonitorBot.send_alert: the alert conditions
ShouldAlert(data, levels) ==
    \/ data.threshold_exceeded
    \/ PctGE(data.percentage_of_threshold, levels.warning)
    \/ data.anomalies
    \/ data.service_exceeded

(***************************************************************************)
(* main(): the command-line overrides of the threshold and of the alert    *)
(* levels. A flag that was not given is None; `if args.threshold:` also    *)
(* skips a threshold of 0. --alert-levels updates the given keys only.     *)
(***************************************************************************)
NotGiven == [given |-> FALSE, value |-> 0]

ThresholdArgs == {NotGiven} \cup {[given |-> TRUE, value |-> t] : t \in Thresholds}

OverrideThreshold(old, arg) ==
    IF arg.given /\ arg.value # 0 THEN arg.value ELSE old

LevelUpdates == UNION {[K -> AlertPercents] : K \in SUBSET LevelKeys}

UpdateAlertLevels(old, upd) ==
    [k \in LevelKeys |-> IF k \in DOMAIN upd THEN upd[k] ELSE old[k]]

ApplyOverrides ==
    /\ pc = "constructed"
    /\ \E t \in ThresholdArgs, upd \in LevelUpdates :
          /\ cost_threshold' = OverrideThreshold(cost_threshold, t)
          /\ alert_levels' = UpdateAlertLevels(alert_levels, upd)
    /\ pc' = "configured"
    /\ UNCHANGED <<cost_data, alert>>
    /\ UNCHANGED <<anomalyVars, filterVars, restVars>>

CheckCosts ==
    /\ pc = "configured"
    /\ \E c \in Costs, a \in BOOLEAN, s \in BOOLEAN :
          cost_data' = CheckCostsResult(c, cost_threshold, a, s)
    /\ pc' = IF cost_data'.status = "ok" THEN "checked" ELSE "check_failed"
    /\ UNCHANGED <<cost_threshold, alert_levels, alert>>
    /\ UNCHANGED <<anomalyVars, filterVars, restVars>>

SendAlert ==
    /\ pc = "checked"
    /\ \E slack_ok \in BOOLEAN :
          alert' = IF ShouldAlert(cost_data, alert_levels)
                   THEN SendCostAlert(cost_data.current_cost, cost_data.threshold,
                                      alert_levels, slack_ok)
                   ELSE [status |-> "not_needed", level |-> "none", error |-> "none"]
    /\ pc' = "alerted"
    /\ UNCHANGED <<cost_threshold, alert_levels, cost_data>>
    /\ UNCHANGED <<anomalyVars, filterVars, restVars>>

\* The settings the other components read, at their defaults.
AnomalyIdle ==
    /\ anomaly_sensitivity = "medium"
    /\ enable_anomaly_detection = TRUE
    /\ daily_costs = <<>>
    /\ anomalies = <<>>
    /\ anomaly_status = "not_run"

FilterIdle ==
    /\ enabled_services = <<>>
    /\ disabled_services = <<>>
    /\ resource_arns = <<>>
    /\ excluded_arns = <<>>
    /\ ret = [op |-> "none"]

QueryIdle ==
    /\ tag_filters = <<>>
    /\ request = [api |-> "none"]

DefaultCheckInterval == 6

\* no environment variable of the options followed, no file, no flag
SettingsInputsIdle ==
    /\ env = [COST_THRESHOLD |-> [given |-> FALSE, value |-> 0],
              CHECK_INTERVAL_HOURS |-> [given |-> FALSE, value |-> 0],
              ENABLE_WEEKEND_MONITORING |-> [given |-> FALSE, value |-> ""]]
    /\ config_data = [cost_threshold |-> [given |-> FALSE, value |-> 0],
                      check_interval_hours |-> [given |-> FALSE, value |-> 0],
                      enable_weekend_monitoring |-> [given |-> FALSE, value |-> FALSE]]
    /\ args = [threshold |-> [given |-> FALSE, value |-> 0],
               check_interval |-> [given |-> FALSE, value |-> 0],
               weekend_monitoring |-> [given |-> FALSE, value |-> ""]]

SettingsIdle ==
    /\ SettingsInputsIdle
    /\ check_interval_hours = DefaultCheckInterval
    /\ enable_weekend_monitoring = TRUE

\* the process has not been started
MainIdle ==
    /\ flags = {}
    /\ at = "parse"
    /\ caller = "none"
    /\ exit_code = 0
    /\ failure = "none"
    /\ current_day = "unread"
    /\ queries = 0
    /\ posts = 0
    /\ result = "none"
    /\ send = [fn |-> "none", outcome |-> "none", raised |-> "none", value |-> FALSE]
    /\ raised = [exc |-> "none", at |-> "none"]
    /\ polls = 0
    /\ last_sleep = 0
    /\ initial_check = "not_started"

\* the settings _validate_config requires
RequiredCredentials == {"SLACK_BOT_TOKEN", "AWS_ACCESS_KEY_ID",
                        "AWS_SECRET_ACCESS_KEY"}

\* start_monitoring has not been called
SchedIdle ==
    /\ notification_frequency = "daily"
    /\ enable_detailed_breakdown = TRUE
    /\ jobs = {}
    /\ due = {}
    /\ running = <<>>
    /\ loop = "not_started"
    /\ today = [weekday |-> "unread", first_of_month |-> FALSE]
    /\ activity = {}

\* no cycle has queried anything; every credential is set
DataIdle ==
    /\ SchedIdle
    /\ api = "unused"
    /\ billing = "unused"
    /\ query_results = <<>>
    /\ service_thresholds = <<>>
    /\ service_details = <<>>
    /\ credentials = RequiredCredentials

RestIdle == QueryIdle /\ SettingsIdle /\ MainIdle /\ DataIdle

AlertIdle ==
    /\ pc = "constructed"
    /\ cost_threshold = DefaultThreshold
    /\ alert_levels = DefaultAlertLevels
    /\ cost_data = NoData
    /\ alert = NoAlert

Init ==
    /\ pc = "constructed"
    /\ cost_threshold \in Thresholds
    /\ \E crit \in AlertPercents, warn \in AlertPercents, info \in AlertPercents :
          alert_levels = ParseAlertLevels(crit, warn, info)
    /\ cost_data = NoData
    /\ alert = NoAlert
    /\ AnomalyIdle
    /\ FilterIdle
    /\ RestIdle

Next ==
    \/ ApplyOverrides
    \/ CheckCosts
    \/ SendAlert

Spec == Init /\ [][Next]_vars

(***************************************************************************)
(* Claims about the threshold classification, checked under Spec.          *)
(***************************************************************************)
AlertSent == pc = "alerted" /\ alert.status \in {"posted", "failed"}

TierRank(level) ==
    CASE level = "normal" -> 0
      [] level = "info" -> 1
      [] level = "warning" -> 2
      [] level = "critical" -> 3

\* C1: for a global threshold that is zero or negative, check_costs and
\* send_cost_alert never raise: the cycle completes and the result is
\* classified as critical.
C1_NonPositiveThresholdIsCritical ==
    (cost_threshold <= 0 /\ pc \in {"check_failed", "checked", "alerted"}) =>
        /\ pc # "check_failed"
        /\ AlertSent => alert.level = "critical"

\* C2: for a threshold T > 0 and a cost C >= 0 the alert is critical if
\* C/T*100 >= the critical cutoff, else warning if >= the warning cutoff, else
\* info if >= the info cutoff, else normal; a percentage equal to a cutoff
\* falls into the higher tier.
C2_ClassificationByCutoffs ==
    (AlertSent /\ cost_data.threshold > 0) =>
        LET C100 == cost_data.current_cost * 100
            T == cost_data.threshold
            crit == C100 >= alert_levels.critical * T
            warn == C100 >= alert_levels.warning * T
            info == C100 >= alert_levels.info * T
        IN  /\ crit => alert.level = "critical"
            /\ (~crit /\ warn) => alert.level = "warning"
            /\ (~crit /\ ~warn /\ info) => alert.level = "info"
            /\ (~crit /\ ~warn /\ ~info) => alert.level = "normal"

\* C2 witness: an alert whose percentage equals the info cutoff, below the
\* other two, is classified info.
C2_Witness ==
    /\ AlertSent
    /\ cost_data.threshold > 0
    /\ cost_data.current_cost * 100 = alert_levels.info * cost_data.threshold
    /\ alert_levels.info < alert_levels.warning
    /\ alert_levels.warning < alert_levels.critical
    /\ alert.level = "info"

\* C3: for a threshold T > 0 and costs 0 <= C1 <= C2 the tier of C2 is never
\* lower than the tier of C1 (normal < info < warning < critical), whatever
\* the alert levels are.
C3_TierMonotonicInCost ==
    (AlertSent /\ cost_data.threshold > 0) =>
        \A c1 \in Costs :
            c1 <= cost_data.current_cost =>
                TierRank(AlertLevel(Percentage(c1, cost_data.threshold), alert_levels))
                    <= TierRank(alert.level)

\* C3 witness: an alert under alert levels that are not in ascending order,
\* with a smaller cost that classifies strictly lower.
C3_Witness ==
    /\ AlertSent
    /\ cost_data.threshold > 0
    /\ alert_levels.info > alert_levels.warning
    /\ \E c1 \in Costs :
          /\ c1 < cost_data.current_cost
          /\ TierRank(AlertLevel(Percentage(c1, cost_data.threshold), alert_levels))
                < TierRank(alert.level)

\* C4: in every configuration state, after the environment is loaded and
\* after --alert-levels is applied, info < warning < critical.
C4_AlertLevelsAscending ==
    /\ alert_levels.info < alert_levels.warning
    /\ alert_levels.warning < alert_levels.critical

\* C11: whenever the current cost C exceeds a positive global threshold T,
\* check_costs reports threshold_exceeded with percentage C/T*100, send_alert
\* sends a cost alert, and with the default cutoffs the alert is critical.
C11_ExceededThresholdAlertsCritical ==
    (/\ pc = "alerted"
     /\ cost_data.threshold > 0
     /\ cost_data.current_cost > cost_data.threshold) =>
        /\ cost_data.threshold_exceeded
        /\ cost_data.percentage_of_threshold.num * cost_data.threshold
              = cost_data.current_cost * 100 * cost_data.percentage_of_threshold.den
        /\ alert.status \in {"posted", "failed"}
        /\ alert_levels = DefaultAlertLevels => alert.level = "critical"

\* C11 witness: threshold 100 and cost 120 give 120 %, and the alert posted
\* under the default cutoffs is critical.
C11_Witness ==
    /\ pc = "alerted"
    /\ cost_data.threshold = 100
    /\ cost_data.current_cost = 120
    /\ cost_data.threshold_exceeded
    /\ PctEq(cost_data.percentage_of_threshold, 120)
    /\ alert_levels = DefaultAlertLevels
    /\ alert.status = "posted"
    /\ alert.level = "critical"

(***************************************************************************)
(* AWSCostMonitor.check_cost_anomalies.                                    *)
(***************************************************************************)
MonthDays == 30       \* check_cost_anomalies asks get_daily_costs for 30 days
WeekDays == 7

CostValues == {0, 10, 13, 25}

Sensitivities == {"low", "medium", "high", "extreme"}

Flat(n, a) == [i \in 1..n |-> a]

Tails == UNION {[1..k -> CostValues] : k \in 0..MaxTail}

\* The daily series the billing API may return: a constant run followed by a
\* free tail, and the constant month.
DailySeries ==
    {Flat(n, a) \o t : n \in 0..MaxFlat, a \in CostValues, t \in Tails}
        \cup {Flat(MonthDays, a) : a \in CostValues}

RECURSIVE Sum(_)
Sum(s) == IF s = <<>> THEN 0 ELSE Head(s) + Sum(Tail(s))

Max(a, b) == IF a >= b THEN a ELSE b

\* Python's s[-n:]
LastSlice(s, n) == SubSeq(s, Max(1, Len(s) - n + 1), Len(s))

\* Python's s[-m:-n]
SliceBetween(s, m, n) == SubSeq(s, Max(1, Len(s) - m + 1), Len(s) - n)

\* Python's s[-k], for 1 <= k <= len(s)
NegIndex(s, k) == s[Len(s) - k + 1]

\* sensitivity_multipliers.get(sensitivity, 1.5), times ten
\* Mutant: an unrecognized sensitivity taken as the least sensitive tier.
Multiplier10UnknownAsLow(sensitivity) ==
    CASE sensitivity = "low" -> 20
      [] sensitivity = "medium" -> 15
      [] sensitivity = "high" -> 12
      [] OTHER -> 20

Multiplier10(sensitivity) ==
    CASE sensitivity = "low" -> 20
      [] sensitivity = "medium" -> 15
      [] sensitivity = "high" -> 12
      [] OTHER -> 15

\* recent_avg and previous_avg are both a sum divided by 7, so
\* recent_avg > previous_avg * m is sum(recent) * 10 > sum(previous) * 10m.
RecentSum(s) == Sum(LastSlice(s, WeekDays))
PreviousSum(s) == Sum(SliceBetween(s, 2 * WeekDays, WeekDays))

WeeklySpikeTest(s, m10) == RecentSum(s) * 10 > PreviousSum(s) * m10

WeeklySpike(s, sensitivity) ==
    [type |-> "cost_spike",
     severity |-> IF RecentSum(s) > PreviousSum(s) * 2 THEN "high" ELSE "medium",
     sensitivity |-> sensitivity,
     day |-> 0]

\* Mutant: the daily comparison made with >= instead of >.
DailySpikeTestInclusive(s, i, m10) ==
    LastSlice(s, WeekDays)[i + 1] * 10 >= NegIndex(s, 8 - i) * m10

\* day i (0-based) of the last seven against daily_costs[-(8-i)]
DailySpikeTest(s, i, m10) ==
    LastSlice(s, WeekDays)[i + 1] * 10 > NegIndex(s, 8 - i) * m10

\* The loop over enumerate(daily_costs[-7:]), i > 0; `day` is the position of
\* the flagged day in the series (its date).
DailySpikes(s, sensitivity) ==
    LET m10 == Multiplier10(sensitivity)
        flagged == SelectSeq([i \in 1..(WeekDays - 1) |-> i],
                             LAMBDA i : DailySpikeTest(s, i, m10))
    IN  [j \in 1..Len(flagged) |->
            [type |-> "daily_spike",
             severity |-> "high",
             sensitivity |-> sensitivity,
             day |-> Len(s) - WeekDays + 1 + flagged[j]]]

\* The whole method. The description of a weekly spike divides recent_avg by
\* previous_avg: with previous_avg = 0 that raises ZeroDivisionError inside
\* the try, and the except clause returns [].
CheckCostAnomaliesResult(s, sensitivity, enabled) ==
    IF ~enabled THEN [anomalies |-> <<>>, status |-> "disabled"]
    ELSE IF Len(s) < WeekDays THEN [anomalies |-> <<>>, status |-> "ok"]
    ELSE IF WeeklySpikeTest(s, Multiplier10(sensitivity))
    THEN IF PreviousSum(s) = 0
         THEN [anomalies |-> <<>>, status |-> "ZeroDivisionError"]
         ELSE [anomalies |-> <<WeeklySpike(s, sensitivity)>> \o DailySpikes(s, sensitivity),
               status |-> "ok"]
    ELSE [anomalies |-> DailySpikes(s, sensitivity), status |-> "ok"]

\* One evaluation per behaviour: the method keeps nothing between two calls.
CheckCostAnomalies ==
    /\ anomaly_status = "not_run"
    /\ \E s \in DailySeries :
          LET r == CheckCostAnomaliesResult(s, anomaly_sensitivity,
                                            enable_anomaly_detection)
          IN  /\ daily_costs' = IF enable_anomaly_detection THEN s ELSE daily_costs
              /\ anomalies' = r.anomalies
              /\ anomaly_status' = r.status
    /\ UNCHANGED <<anomaly_sensitivity, enable_anomaly_detection>>
    /\ UNCHANGED <<alertVars, filterVars, restVars>>

InitAnomaly ==
    /\ anomaly_sensitivity \in Sensitivities
    /\ enable_anomaly_detection \in BOOLEAN
    /\ daily_costs = <<>>
    /\ anomalies = <<>>
    /\ anomaly_status = "not_run"
    /\ AlertIdle
    /\ FilterIdle
    /\ RestIdle

NextAnomaly == CheckCostAnomalies

SpecAnomaly == InitAnomaly /\ [][NextAnomaly]_vars

(***************************************************************************)
(* Claims about the anomaly heuristic, checked under SpecAnomaly.          *)
(***************************************************************************)
AnomalyRan == anomaly_status \in {"ok", "ZeroDivisionError"}

HasWeeklySpike == \E i \in DOMAIN anomalies : anomalies[i].type = "cost_spike"

\* the days (positions in the series) the returned daily spikes name
DailySpikeDays ==
    {anomalies[i].day : i \in {j \in DOMAIN anomalies : anomalies[j].type = "daily_spike"}}

\* the days among the 2nd..7th of the last seven whose cost exceeds the cost
\* of the day before times the multiplier
ExpectedSpikeDays(s, sensitivity) ==
    {d \in (Len(s) - WeekDays + 2)..Len(s) :
        s[d] * 10 > s[d - 1] * Multiplier10(sensitivity)}

\* C5: a weekly spike is emitted if and only if previous_mean > 0 and
\* recent_mean > previous_mean * multiplier (means of the last 7 days and of
\* the 7 before them); when previous_mean is 0 no weekly spike is emitted and
\* the other anomalies of the evaluation are still returned.
C5_WeeklySpikeIffGuarded ==
    (AnomalyRan /\ Len(daily_costs) >= 2 * WeekDays) =>
        LET recent == Sum(SubSeq(daily_costs, Len(daily_costs) - WeekDays + 1,
                                 Len(daily_costs)))
            previous == Sum(SubSeq(daily_costs, Len(daily_costs) - 2 * WeekDays + 1,
                                   Len(daily_costs) - WeekDays))
        IN  /\ HasWeeklySpike <=>
                  (previous > 0 /\
                   recent * 10 > previous * Multiplier10(anomaly_sensitivity))
            /\ previous = 0 =>
                  DailySpikeDays = ExpectedSpikeDays(daily_costs, anomaly_sensitivity)

\* C6: with fewer than 14 data points no weekly spike is emitted and nothing
\* is divided by zero; with fewer than 7 the empty list is returned without
\* error.
C6_ShortSeriesNoWeeklySpike ==
    (AnomalyRan /\ Len(daily_costs) < 2 * WeekDays) =>
        /\ ~HasWeeklySpike
        /\ anomaly_status # "ZeroDivisionError"
        /\ Len(daily_costs) < WeekDays => (anomalies = <<>> /\ anomaly_status = "ok")

\* C7: for a series of at least 7 points the daily spikes returned are exactly
\* the days i among the 2nd..7th of the last seven with
\* cost[i] > cost[i-1] * multiplier, each with severity high.
C7_DailySpikesExact ==
    (AnomalyRan /\ Len(daily_costs) >= WeekDays) =>
        /\ DailySpikeDays = ExpectedSpikeDays(daily_costs, anomaly_sensitivity)
        /\ \A i \in DOMAIN anomalies :
              anomalies[i].type = "daily_spike" => anomalies[i].severity = "high"

\* C8: a daily series of 30 identical non-negative values yields no anomaly
\* of either kind, for every sensitivity tier.
C8_FlatMonthNoAnomalies ==
    (/\ anomaly_status # "not_run"
     /\ enable_anomaly_detection
     /\ Len(daily_costs) = MonthDays
     /\ \A i \in DOMAIN daily_costs : daily_costs[i] = daily_costs[1])
        => (anomalies = <<>> /\ anomaly_status = "ok")

\* C8 witness: the evaluation of a month of identical positive costs.
C8_Witness ==
    /\ anomaly_status = "ok"
    /\ enable_anomaly_detection
    /\ anomaly_sensitivity = "high"
    /\ Len(daily_costs) = MonthDays
    /\ daily_costs[1] > 0
    /\ \A i \in DOMAIN daily_costs : daily_costs[i] = daily_costs[1]
    /\ anomalies = <<>>

(***************************************************************************)
(* Config.should_monitor_resource. Identifiers and list entries are        *)
(* strings, modelled as sequences of characters; `x in y` on two strings   *)
(* is the substring test.                                                  *)
(***************************************************************************)
ArnChars == {"a", "b"}

Arns == UNION {[1..n -> ArnChars] : n \in 0..MaxArnLen}

\* Entries of RESOURCE_ARNS / EXCLUDED_ARNS and of --resource-arns /
\* --exclude-arns; the command line can leave an empty entry ("a,").
ArnPatterns == {<<>>, <<"a">>, <<"b">>, <<"a", "b">>}

ArnLists == UNION {[1..n -> ArnPatterns] : n \in 0..MaxListLen}

\* Python's `a in r` for strings
IsSubstring(a, r) ==
    \E i \in 0..(Len(r) - Len(a)) : SubSeq(r, i + 1, i + Len(a)) = a

\* Mutant: the include-list consulted before the exclude-list.
ShouldMonitorResourceIncludeFirst(resource_arn, included, excluded) ==
    IF \E i \in DOMAIN included : IsSubstring(included[i], resource_arn) THEN TRUE
    ELSE IF \E i \in DOMAIN excluded : IsSubstring(excluded[i], resource_arn) THEN FALSE
    ELSE included = <<>>

ShouldMonitorResource(resource_arn, included, excluded) ==
    IF \E i \in DOMAIN excluded : IsSubstring(excluded[i], resource_arn) THEN FALSE
    ELSE IF included = <<>> THEN TRUE
    ELSE IF \E i \in DOMAIN included : IsSubstring(included[i], resource_arn) THEN TRUE
    ELSE FALSE

\* One call per behaviour: the method reads the settings and keeps nothing.
CallShouldMonitorResource ==
    /\ ret.op = "none"
    /\ \E r \in Arns :
          ret' = [op |-> "should_monitor_resource",
                  arg |-> r,
                  value |-> ShouldMonitorResource(r, resource_arns, excluded_arns)]
    /\ UNCHANGED <<enabled_services, disabled_services, resource_arns, excluded_arns>>
    /\ UNCHANGED <<alertVars, anomalyVars, restVars>>

InitResource ==
    /\ resource_arns \in ArnLists
    /\ excluded_arns \in ArnLists
    /\ enabled_services = <<>>
    /\ disabled_services = <<>>
    /\ ret = [op |-> "none"]
    /\ AlertIdle
    /\ AnomalyIdle
    /\ RestIdle

NextResource == CallShouldMonitorResource

SpecResource == InitResource /\ [][NextResource]_vars

\* C9: should_monitor_resource(r) is false whenever a configured excluded
\* string is a substring of r, whatever the include-list holds; otherwise it
\* is true when the include-list is empty, and with a non-empty include-list
\* it is true exactly when some included string is a substring of r.
C9_ResourceFilter ==
    ret.op = "should_monitor_resource" =>
        LET r == ret.arg
            excludedHit == \E i \in DOMAIN excluded_arns :
                              IsSubstring(excluded_arns[i], r)
            includedHit == \E i \in DOMAIN resource_arns :
                              IsSubstring(resource_arns[i], r)
        IN  /\ excludedHit => ret.value = FALSE
            /\ (~excludedHit /\ Len(resource_arns) = 0) => ret.value = TRUE
            /\ (~excludedHit /\ Len(resource_arns) > 0) => (ret.value <=> includedHit)

\* C9 witness: a resource matched by the include-list and by the exclude-list
\* is not monitored.
C9_Witness ==
    /\ ret.op = "should_monitor_resource"
    /\ \E i \in DOMAIN excluded_arns :
          excluded_arns[i] # <<>> /\ IsSubstring(excluded_arns[i], ret.arg)
    /\ \E i \in DOMAIN resource_arns :
          resource_arns[i] # <<>> /\ IsSubstring(resource_arns[i], ret.arg)
    /\ ret.value = FALSE

(***************************************************************************)
(* Config.is_service_enabled. Names are sequences of characters and        *)
(* str.lower() maps every upper-case letter to its lower-case letter.      *)
(***************************************************************************)
LowerChar(c) ==
    CASE c = "A" -> "a"
      [] c = "L" -> "l"
      [] c = "E" -> "e"
      [] c = "C" -> "c"
      [] c = "S" -> "s"
      [] OTHER -> c

Lower(name) == [i \in DOMAIN name |-> LowerChar(name[i])]

AllName == <<"a", "l", "l">>

ServiceNames ==
    {AllName, <<"A", "L", "L">>, <<"e", "c", "2">>, <<"E", "C", "2">>, <<"S", "3">>}

ServiceLists == UNION {[1..n -> ServiceNames] : n \in 0..MaxListLen}

\* [s.lower() for s in names]
LowerList(names) == [i \in DOMAIN names |-> Lower(names[i])]

\* Python's `x in list`
InList(x, list) == \E i \in DOMAIN list : list[i] = x

\* Mutant: the "all" shortcut taken before the disabled list is consulted.
IsServiceEnabledAllFirst(service_name, enabled, disabled) ==
    IF InList(AllName, LowerList(enabled)) THEN TRUE
    ELSE IF InList(Lower(service_name), LowerList(disabled)) THEN FALSE
    ELSE InList(Lower(service_name), LowerList(enabled))

IsServiceEnabled(service_name, enabled, disabled) ==
    IF InList(Lower(service_name), LowerList(disabled)) THEN FALSE
    ELSE IF InList(AllName, LowerList(enabled)) THEN TRUE
    ELSE InList(Lower(service_name), LowerList(enabled))

\* One call per behaviour: the method reads the settings and keeps nothing.
\* the one service the billing API reports
ReportedService == <<"E", "C", "2">>

\* the built-in list get_enabled_services_list uses for "all" (two names
\* stand for its twenty)
CommonServices == <<ReportedService, <<"S", "3">>>>

\* Config.get_enabled_services_list
GetEnabledServicesList(enabled, disabled) ==
    IF InList(AllName, LowerList(enabled))
    THEN SelectSeq(CommonServices,
                   LAMBDA name : IsServiceEnabled(name, enabled, disabled))
    ELSE enabled

\* one call of Config.get_enabled_services_list(), the list that
\* get_service_specific_costs iterates and get_cost_explorer_filters puts
\* in the SERVICE dimension
CallGetEnabledServicesList ==
    /\ ret.op = "none"
    /\ ret' = [op |-> "get_enabled_services_list",
               value |-> GetEnabledServicesList(enabled_services, disabled_services)]
    /\ UNCHANGED <<enabled_services, disabled_services, resource_arns, excluded_arns>>
    /\ UNCHANGED <<alertVars, anomalyVars, restVars>>

CallIsServiceEnabled ==
    /\ ret.op = "none"
    /\ \E s \in ServiceNames :
          ret' = [op |-> "is_service_enabled",
                  arg |-> s,
                  value |-> IsServiceEnabled(s, enabled_services, disabled_services)]
    /\ UNCHANGED <<enabled_services, disabled_services, resource_arns, excluded_arns>>
    /\ UNCHANGED <<alertVars, anomalyVars, restVars>>

InitService ==
    /\ enabled_services \in ServiceLists
    /\ disabled_services \in ServiceLists
    /\ resource_arns = <<>>
    /\ excluded_arns = <<>>
    /\ ret = [op |-> "none"]
    /\ AlertIdle
    /\ AnomalyIdle
    /\ RestIdle

NextService == CallIsServiceEnabled \/ CallGetEnabledServicesList

SpecService == InitService /\ [][NextService]_vars

\* two names that differ at most in the case of their letters
SameNameIgnoringCase(a, b) ==
    /\ Len(a) = Len(b)
    /\ \A i \in DOMAIN a : LowerChar(a[i]) = LowerChar(b[i])

\* C10: is_service_enabled(s) is false whenever s is in the disabled list,
\* even if s or "all" is in the enabled list; otherwise it is true when "all"
\* is in the enabled list, and else true exactly when s is in the enabled
\* list; names are compared without regard to case.
C10_ServiceEnabled ==
    ret.op = "is_service_enabled" =>
        LET s == ret.arg
            isDisabled == \E i \in DOMAIN disabled_services :
                             SameNameIgnoringCase(disabled_services[i], s)
            allEnabled == \E i \in DOMAIN enabled_services :
                             SameNameIgnoringCase(enabled_services[i], AllName)
            isEnabled == \E i \in DOMAIN enabled_services :
                            SameNameIgnoringCase(enabled_services[i], s)
        IN  /\ isDisabled => ret.value = FALSE
            /\ (~isDisabled /\ allEnabled) => ret.value = TRUE
            /\ (~isDisabled /\ ~allEnabled) => (ret.value <=> isEnabled)

\* C10 witness: a service disabled under another spelling of its name is
\* reported disabled although "all" is enabled.
C10_Witness ==
    /\ ret.op = "is_service_enabled"
    /\ ret.arg = <<"E", "C", "2">>
    /\ InList(<<"e", "c", "2">>, disabled_services)
    /\ ~InList(<<"E", "C", "2">>, disabled_services)
    /\ InList(<<"A", "L", "L">>, enabled_services)
    /\ ret.value = FALSE

(***************************************************************************)
(* Config.get_cost_explorer_filters, AWSCostMonitor._build_filter_expression *)
(* and the Filter keyword argument of the four filtered billing queries.   *)
(***************************************************************************)
TagItems == {[key |-> "env", value |-> "prod"], [key |-> "team", value |-> "core"]}

\* the items of TAG_FILTERS / --tag-filters: a dict, so no key twice
TagFilterLists ==
    {t \in UNION {[1..n -> TagItems] : n \in 0..Cardinality(TagItems)} :
        \A i, j \in DOMAIN t : i # j => t[i].key # t[j].key}

\* the else branch of get_enabled_services_list, the one the filter reaches
ServiceFilter(enabled) ==
    [kind |-> "Dimensions", key |-> "SERVICE", values |-> enabled]

TagFilter(item) ==
    [kind |-> "Tags", key |-> item.key, values |-> <<item.value>>]

GetCostExplorerFilters(enabled, tags) ==
    (IF enabled # <<>> /\ ~InList(AllName, LowerList(enabled))
     THEN <<ServiceFilter(enabled)>>
     ELSE <<>>)
        \o [i \in DOMAIN tags |-> TagFilter(tags[i])]

BuildFilterExpression(filters) ==
    IF filters = <<>> THEN [kind |-> "Empty"]
    ELSE IF Len(filters) = 1 THEN filters[1]
    ELSE [kind |-> "And", operands |-> filters]

\* Filter=self._build_filter_expression(filters) if filters else None:
\* the keyword is always given, with None when there is no filter.
FilterArgument(filters) ==
    IF filters # <<>>
    THEN [present |-> TRUE, value |-> BuildFilterExpression(filters)]
    ELSE [present |-> TRUE, value |-> [kind |-> "None"]]

FilteredQueries ==
    {"get_current_month_cost", "get_daily_costs", "get_cost_and_usage",
     "get_cost_forecast"}

\* One billing call per behaviour: the call reads the settings only.
IssueQuery ==
    /\ request.api = "none"
    /\ \E q \in FilteredQueries :
          request' = [api |-> q,
                      Filter |-> FilterArgument(
                                    GetCostExplorerFilters(enabled_services, tag_filters))]
    /\ UNCHANGED <<tag_filters, alertVars, anomalyVars, filterVars, settingsVars,
                   mainVars, dataVars>>

InitQuery ==
    /\ enabled_services \in ServiceLists
    /\ tag_filters \in TagFilterLists
    /\ request = [api |-> "none"]
    /\ disabled_services = <<>>
    /\ resource_arns = <<>>
    /\ excluded_arns = <<>>
    /\ ret = [op |-> "none"]
    /\ AlertIdle
    /\ AnomalyIdle
    /\ SettingsIdle
    /\ MainIdle
    /\ DataIdle

NextQuery == IssueQuery

SpecQuery == InitQuery /\ [][NextQuery]_vars

\* the number of atomic filters the settings yield
AtomicFilterCount ==
    (IF /\ Len(enabled_services) > 0
        /\ \A i \in DOMAIN enabled_services :
              ~SameNameIgnoringCase(enabled_services[i], AllName)
     THEN 1 ELSE 0) + Len(tag_filters)

\* C12: with zero atomic filters every billing query omits the filter
\* parameter (no empty object, no null); with one filter that filter is
\* passed as is; with two or more they are combined under a single AND.
C12_FilterParameter ==
    request.api # "none" =>
        /\ AtomicFilterCount = 0 => ~request.Filter.present
        /\ AtomicFilterCount = 1 =>
              (request.Filter.present /\ request.Filter.value.kind \in {"Dimensions", "Tags"})
        /\ AtomicFilterCount >= 2 =>
              /\ request.Filter.present
              /\ request.Filter.value.kind = "And"
              /\ Len(request.Filter.value.operands) = AtomicFilterCount

\* ---------------------------------------------------------------------
\* Settings resolution: Config.__init__ (file, then environment) followed
\* by the command-line overrides of main()
\* ---------------------------------------------------------------------

NotGivenWord == [given |-> FALSE, value |-> ""]
NotGivenFlag == [given |-> FALSE, value |-> FALSE]

Given(v) == [given |-> TRUE, value |-> v]

EnvThresholds == {NotGiven, Given(50), Given(DefaultThreshold)}
EnvIntervals == {NotGiven, Given(1), Given(12)}
EnvWords == {NotGivenWord, Given("True"), Given("false")}

FileThresholds == {NotGiven, Given(50), Given(200)}
FileIntervals == {NotGiven, Given(1), Given(24)}
FileFlags == {NotGivenFlag, Given(TRUE), Given(FALSE)}

IntervalArgs == {NotGiven, Given(0), Given(1), Given(3)}
WeekendArgs == {NotGivenWord, Given("true"), Given("false")}

\* str.lower() on the words used for the boolean settings
LowerWord(w) ==
    CASE w = "True" -> "true"
      [] w = "TRUE" -> "true"
      [] w = "False" -> "false"
      [] w = "FALSE" -> "false"
      [] OTHER -> w

\* os.getenv(name, default)
GetEnv(var, default) == IF var.given THEN var.value ELSE default

\* self.attr = value
Assign(self, attr, value) ==
    [a \in DOMAIN self \cup {attr} |-> IF a = attr THEN value ELSE self[a]]

\* the loop of _load_config_file: a key of the file is set only on an
\* attribute the object already has
LoadConfigFile(self, data) ==
    [a \in DOMAIN self |->
        IF a \in DOMAIN data /\ data[a].given THEN data[a].value ELSE self[a]]

\* Config.__init__: the file is loaded when only config_file and
\* config_data exist, the settings are assigned from the environment after
ConfigInit(e, data) ==
    LET self0 == [config_file |-> "settings.yml", config_data |-> data]
        self1 == LoadConfigFile(self0, data)
        self2 == Assign(self1, "cost_threshold",
                        GetEnv(e.COST_THRESHOLD, DefaultThreshold))
        self3 == Assign(self2, "check_interval_hours",
                        GetEnv(e.CHECK_INTERVAL_HOURS, DefaultCheckInterval))
    IN  Assign(self3, "enable_weekend_monitoring",
               LowerWord(GetEnv(e.ENABLE_WEEKEND_MONITORING, "true")) = "true")

\* if args.check_interval: bot.config.check_interval_hours = args.check_interval
OverrideCheckInterval(old, arg) ==
    IF arg.given /\ arg.value # 0 THEN arg.value ELSE old

\* if args.weekend_monitoring: ... = args.weekend_monitoring.lower() == 'true'
OverrideWeekendMonitoring(old, arg) ==
    IF arg.given /\ arg.value # "" THEN LowerWord(arg.value) = "true" ELSE old

\* the overrides of main() for the flags held in args
ApplyCliOverrides ==
    /\ pc = "constructed"
    /\ cost_threshold' = OverrideThreshold(cost_threshold, args.threshold)
    /\ check_interval_hours' =
          OverrideCheckInterval(check_interval_hours, args.check_interval)
    /\ enable_weekend_monitoring' =
          OverrideWeekendMonitoring(enable_weekend_monitoring,
                                    args.weekend_monitoring)
    /\ pc' = "configured"
    /\ UNCHANGED <<alert_levels, cost_data, alert, env, config_data, args>>
    /\ UNCHANGED <<anomalyVars, filterVars, queryVars, mainVars, dataVars>>

InitConfig ==
    /\ env \in [COST_THRESHOLD : EnvThresholds,
                CHECK_INTERVAL_HOURS : EnvIntervals,
                ENABLE_WEEKEND_MONITORING : EnvWords]
    /\ config_data \in [cost_threshold : FileThresholds,
                        check_interval_hours : FileIntervals,
                        enable_weekend_monitoring : FileFlags]
    /\ args \in [threshold : ThresholdArgs,
                 check_interval : IntervalArgs,
                 weekend_monitoring : WeekendArgs]
    /\ pc = "constructed"
    /\ cost_threshold = ConfigInit(env, config_data).cost_threshold
    /\ check_interval_hours = ConfigInit(env, config_data).check_interval_hours
    /\ enable_weekend_monitoring =
          ConfigInit(env, config_data).enable_weekend_monitoring
    /\ alert_levels = DefaultAlertLevels
    /\ cost_data = NoData
    /\ alert = NoAlert
    /\ AnomalyIdle
    /\ FilterIdle
    /\ QueryIdle
    /\ MainIdle
    /\ DataIdle

NextConfig == ApplyCliOverrides

SpecConfig == InitConfig /\ [][NextConfig]_vars

\* C13: an option set in the configuration file and not overridden on the
\* command line resolves to the file's value, whatever the environment
\* holds; the environment value is used only when the file leaves the
\* option unset.
C13_FileBeatsEnvironment ==
    pc = "configured" =>
        /\ (config_data.cost_threshold.given /\ ~args.threshold.given)
              => cost_threshold = config_data.cost_threshold.value
        /\ (config_data.check_interval_hours.given /\ ~args.check_interval.given)
              => check_interval_hours = config_data.check_interval_hours.value
        /\ (config_data.enable_weekend_monitoring.given
               /\ ~args.weekend_monitoring.given)
              => enable_weekend_monitoring
                    = config_data.enable_weekend_monitoring.value

\* C14: after startup every override flag supplied on the command line,
\* with any value the parser accepts (numeric flags included), has set its
\* settings field to the supplied value, and a field whose flag was not
\* supplied keeps the value the construction gave it.
C14_CliOverridesApplied ==
    pc = "configured" =>
        /\ cost_threshold =
              (IF args.threshold.given THEN args.threshold.value
               ELSE ConfigInit(env, config_data).cost_threshold)
        /\ check_interval_hours =
              (IF args.check_interval.given THEN args.check_interval.value
               ELSE ConfigInit(env, config_data).check_interval_hours)
        /\ enable_weekend_monitoring =
              (IF args.weekend_monitoring.given
               THEN args.weekend_monitoring.value = "true"
               ELSE ConfigInit(env, config_data).enable_weekend_monitoring)

\* ---------------------------------------------------------------------
\* The process: main(), the one-shot modes and the daemon of
\* CostMonitorBot.start_monitoring with its run_check cycles
\* ---------------------------------------------------------------------

MaxPolls == 3

PollInterval == 60
BackoffInterval == 300

otherVars == <<alertVars, anomalyVars, filterVars, queryVars, settingsVars,
               dataVars>>

ActionFlags == {"test", "check_once", "summary", "daemon"}

\* the if/elif chain of main(): the first flag set wins
SelectedAction(f) ==
    IF "test" \in f THEN "test"
    ELSE IF "check_once" \in f THEN "check_once"
    ELSE IF "summary" \in f THEN "summary"
    ELSE IF "daemon" \in f THEN "daemon"
    ELSE "none"

Days == {"Monday", "Tuesday", "Wednesday", "Thursday", "Friday", "Saturday",
         "Sunday"}
Weekend == {"Saturday", "Sunday"}

\* what a billing call or a sleep can end with
Outcomes == {"ok", "Exception", "KeyboardInterrupt"}
\* what a call of the messaging API can end with
SlackOutcomes == {"ok", "SlackApiError", "Exception", "KeyboardInterrupt"}
\* the ways the messaging API fails
ApiFailures == {"SlackApiError", "Exception"}
SleepOutcomes == {"ok", "KeyboardInterrupt"}

NoSend == [fn |-> "none", outcome |-> "none", raised |-> "none", value |-> FALSE]
NoRaise == [exc |-> "none", at |-> "none"]

Raise(exc, where) == IF exc \in {"ok", "none"} THEN NoRaise ELSE [exc |-> exc, at |-> where]

BoolWord(b) == IF b THEN "True" ELSE "False"

\* whether an except clause catches an exception: SlackApiError, the
\* billing client's ClientError and ZeroDivisionError are Exceptions,
\* KeyboardInterrupt is not; a bare except catches everything
Catches(clause, exc) ==
    CASE clause = "SlackApiError" -> exc = "SlackApiError"
      [] clause = "Exception" -> exc \in {"Exception", "SlackApiError",
                                          "ClientError", "ZeroDivisionError"}
      [] clause = "KeyboardInterrupt" -> exc = "KeyboardInterrupt"
      [] clause = "bare" -> exc \notin {"ok", "none"}
      [] OTHER -> FALSE

NotifierCallReraising(fn, outcome) ==
    [fn |-> fn, outcome |-> outcome,
     raised |-> IF outcome = "ok" THEN "none" ELSE outcome,
     value |-> outcome = "ok"]

\* the try/except around chat_postMessage in a send_* method of the
\* notifier: True when posted, False when SlackApiError or another
\* Exception was caught
NotifierCall(fn, outcome) ==
    IF outcome = "ok"
    THEN [fn |-> fn, outcome |-> outcome, raised |-> "none", value |-> TRUE]
    ELSE IF Catches("SlackApiError", outcome) \/ Catches("Exception", outcome)
    THEN [fn |-> fn, outcome |-> outcome, raised |-> "none", value |-> FALSE]
    ELSE [fn |-> fn, outcome |-> outcome, raised |-> outcome, value |-> FALSE]

SendCostAlertCall(outcome) == NotifierCall("send_cost_alert", outcome)
SendServiceSpecificAlertCall(outcome) ==
    NotifierCall("send_service_specific_alert", outcome)
SendCostSummaryCall(outcome) == NotifierCall("send_cost_summary", outcome)

\* CostMonitorBot.send_alert: True without a post when no alert is needed
BotSendAlert(should_alert, outcome) ==
    IF ~should_alert
    THEN [send |-> NoSend, value |-> TRUE, raised |-> "none"]
    ELSE LET s == SendCostAlertCall(outcome)
         IN  [send |-> s,
              value |-> s.raised = "none" /\ s.value,
              raised |-> IF Catches("Exception", s.raised) THEN "none"
                         ELSE s.raised]

\* CostMonitorBot.send_summary
BotSendSummary(outcome) ==
    LET s == SendCostSummaryCall(outcome)
    IN  [send |-> s,
         value |-> s.raised = "none" /\ s.value,
         raised |-> IF Catches("Exception", s.raised) THEN "none" ELSE s.raised]

WeekendSkipSaturdayOnly(enabled, day) == ~enabled /\ day = "Saturday"

\* the test at the top of run_check
WeekendSkip(enabled, day) == ~enabled /\ day \in Weekend

\* start_monitoring raised out to main(): its daemon branch
MainDaemonHandler(exc) ==
    IF Catches("KeyboardInterrupt", exc)
    THEN [at |-> "exited", exit_code |-> 0]
    ELSE [at |-> "exited", exit_code |-> 1]

LoopHandlerBreaksOnException(exc) ==
    IF Catches("KeyboardInterrupt", exc)
    THEN [at |-> "exited", exit_code |-> 0]
    ELSE [at |-> "exited", exit_code |-> 1]

\* the except clauses of the polling loop: an interrupt breaks the loop,
\* start_monitoring returns and main() ends; an Exception backs off
LoopHandler(exc) ==
    IF Catches("KeyboardInterrupt", exc)
    THEN [at |-> "exited", exit_code |-> 0]
    ELSE [at |-> "backoff", exit_code |-> 0]

\* where an exception that leaves run_check lands: the first run_check is
\* called outside the loop's try, the scheduled ones inside it
UnwindFromCycle(c, exc) ==
    IF c = "scheduled" THEN LoopHandler(exc) ELSE MainDaemonHandler(exc)

\* where run_check returns to: the first one to the loop's first poll, a
\* scheduled one to the sleep that follows run_pending
ReturnTo(c) == IF c = "initial" THEN "run_pending" ELSE "sleep"

AfterConnectionTestNoInitialCheck(ok) == IF ok THEN "run_pending" ELSE "exited"

\* start_monitoring after test_connections: the first run_check, or return
AfterConnectionTest(ok) == IF ok THEN "rc_weekend" ELSE "exited"

CyclePositions == {"rc_weekend", "rc_check_costs", "rc_service_costs",
                   "rc_send_alert", "rc_error_notify"}
LoopPositions == {"run_pending", "sleep", "backoff"}

\* sys.exit(code)
Exit(code) == at' = "exited" /\ exit_code' = code

\* run_check returns value to its caller
CycleReturns(value) ==
    /\ result' = BoolWord(value)
    /\ at' = ReturnTo(caller)
    /\ initial_check' = IF caller = "initial" THEN "done" ELSE initial_check
    /\ UNCHANGED exit_code

\* run_check goes on with its next statement
CycleGoes(next) ==
    /\ at' = next
    /\ UNCHANGED <<result, exit_code, initial_check>>

\* exc leaves run_check
CycleUnwinds(exc) ==
    /\ at' = UnwindFromCycle(caller, exc).at
    /\ exit_code' = UnwindFromCycle(caller, exc).exit_code
    /\ UNCHANGED <<result, initial_check>>

\* an exception in the body of run_check: except Exception leads to the
\* error notification, anything else leaves run_check
CycleRaises(exc) ==
    IF Catches("Exception", exc) THEN CycleGoes("rc_error_notify")
    ELSE CycleUnwinds(exc)

\* main(): no action flag
MainNoAction ==
    /\ at = "parse"
    /\ SelectedAction(flags) = "none"
    /\ failure' = "no_action"
    /\ Exit(1)
    /\ send' = NoSend
    /\ raised' = NoRaise
    /\ UNCHANGED <<flags, caller, cycleVars, loopVars, otherVars>>

ValidateConfigTokenOnly(present) == "SLACK_BOT_TOKEN" \in present

\* Config._validate_config: FALSE when it raises ValueError, which happens
\* when a required setting is unset or empty
ValidateConfig(present) == RequiredCredentials \ present = {}

\* main(): CostMonitorBot(args.config) and the overrides; ok is whether
\* everything but the validation of the credentials goes well
InitBot ==
    /\ at = "parse"
    /\ SelectedAction(flags) # "none"
    /\ \E ok \in BOOLEAN :
          IF ok /\ ValidateConfig(credentials)
          THEN at' = "dispatch" /\ UNCHANGED <<exit_code, failure>>
          ELSE failure' = "init" /\ Exit(1)
    /\ send' = NoSend
    /\ raised' = NoRaise
    /\ UNCHANGED <<flags, caller, cycleVars, loopVars, otherVars>>

\* main(): --test
RunTest ==
    /\ at = "dispatch"
    /\ SelectedAction(flags) = "test"
    /\ \E success \in BOOLEAN :
          /\ failure' = IF success THEN "none" ELSE "connection_test"
          /\ Exit(IF success THEN 0 ELSE 1)
    /\ send' = NoSend
    /\ raised' = NoRaise
    /\ UNCHANGED <<flags, caller, cycleVars, loopVars, otherVars>>

\* main(): bot.check_costs() of --check-once and --summary
OneShotCheckCosts ==
    /\ at = "dispatch"
    /\ SelectedAction(flags) \in {"check_once", "summary"}
    /\ \E outcome \in {"ok", "Exception"} :
          /\ raised' = Raise(outcome, "check_costs")
          /\ IF outcome = "ok"
             THEN at' = "deliver" /\ UNCHANGED <<exit_code, failure>>
             ELSE failure' = "cost_check" /\ Exit(1)
    /\ send' = NoSend
    /\ UNCHANGED <<flags, caller, cycleVars, loopVars, otherVars>>

\* main(): bot.send_alert(cost_data) of --check-once, then sys.exit(0)
CheckOnceDeliver ==
    /\ at = "deliver"
    /\ SelectedAction(flags) = "check_once"
    /\ \E should_alert \in BOOLEAN, outcome \in SlackOutcomes \ {"KeyboardInterrupt"} :
          /\ send' = BotSendAlert(should_alert, outcome).send
          /\ raised' = Raise(send'.outcome, "send_alert")
          /\ failure' = IF BotSendAlert(should_alert, outcome).value
                        THEN "none" ELSE "delivery"
    /\ Exit(0)
    /\ UNCHANGED <<flags, caller, cycleVars, loopVars, otherVars>>

\* main(): bot.send_summary(cost_data) of --summary
SummaryDeliver ==
    /\ at = "deliver"
    /\ SelectedAction(flags) = "summary"
    /\ \E outcome \in SlackOutcomes \ {"KeyboardInterrupt"} :
          /\ send' = BotSendSummary(outcome).send
          /\ raised' = Raise(outcome, "send_summary")
          /\ failure' = IF BotSendSummary(outcome).value THEN "none" ELSE "delivery"
          /\ Exit(IF BotSendSummary(outcome).value THEN 0 ELSE 1)
    /\ UNCHANGED <<flags, caller, cycleVars, loopVars, otherVars>>

\* main(): --daemon; start_monitoring up to the call of the first run_check,
\* or its return when the connection test fails (main() then ends)
StartMonitoring ==
    /\ at = "dispatch"
    /\ SelectedAction(flags) = "daemon"
    /\ \E ok \in BOOLEAN :
          /\ at' = AfterConnectionTest(ok)
          /\ failure' = IF ok THEN "none" ELSE "daemon_start"
          /\ initial_check' = IF at' = "rc_weekend" THEN "running" ELSE "not_started"
          /\ caller' = IF at' = "rc_weekend" THEN "initial" ELSE "none"
    /\ current_day' = "unread"
    /\ queries' = 0
    /\ posts' = 0
    /\ result' = "none"
    /\ send' = NoSend
    /\ raised' = NoRaise
    /\ UNCHANGED <<flags, exit_code, polls, last_sleep, otherVars>>

\* run_check: the weekend test
RcWeekendTest ==
    /\ at = "rc_weekend"
    /\ \E day \in Days :
          /\ current_day' = day
          /\ IF WeekendSkip(enable_weekend_monitoring, day)
             THEN CycleReturns(TRUE)
             ELSE CycleGoes("rc_check_costs")
    /\ send' = NoSend
    /\ raised' = NoRaise
    /\ UNCHANGED <<flags, caller, failure, queries, posts, polls, last_sleep,
                   otherVars>>

\* run_check: self.check_costs()
RcCheckCosts ==
    /\ at = "rc_check_costs"
    /\ queries' = queries + 1
    /\ \E outcome \in Outcomes :
          /\ raised' = Raise(outcome, "rc_check_costs")
          /\ IF outcome = "ok" THEN CycleGoes("rc_service_costs")
             ELSE CycleRaises(outcome)
    /\ send' = NoSend
    /\ UNCHANGED <<flags, caller, failure, current_day, posts, polls,
                   last_sleep, otherVars>>

\* run_check: self.check_service_specific_costs(), which catches Exception
\* and ignores what send_service_specific_alert returns
RcServiceCosts ==
    /\ at = "rc_service_costs"
    /\ queries' = queries + 1
    /\ \E outcome \in Outcomes, over \in BOOLEAN, slack \in SlackOutcomes :
          LET called == outcome = "ok" /\ over
              s == IF called THEN SendServiceSpecificAlertCall(slack) ELSE NoSend
              escaped == IF outcome # "ok"
                         THEN (IF Catches("Exception", outcome) THEN "none"
                               ELSE outcome)
                         ELSE IF Catches("Exception", s.raised) THEN "none"
                         ELSE s.raised
          IN  /\ send' = s
              /\ posts' = IF called THEN posts + 1 ELSE posts
              /\ raised' = IF outcome # "ok" THEN Raise(outcome, "rc_service_costs")
                           ELSE Raise(s.outcome, "rc_service_costs")
              /\ IF escaped = "none" THEN CycleGoes("rc_send_alert")
                 ELSE CycleRaises(escaped)
    /\ UNCHANGED <<flags, caller, failure, current_day, polls, last_sleep,
                   otherVars>>

\* run_check: alert_success = self.send_alert(cost_data); return it
RcSendAlert ==
    /\ at = "rc_send_alert"
    /\ \E should_alert \in BOOLEAN, outcome \in SlackOutcomes :
          LET r == BotSendAlert(should_alert, outcome)
          IN  /\ send' = r.send
              /\ posts' = IF should_alert THEN posts + 1 ELSE posts
              /\ raised' = Raise(r.send.outcome, "rc_send_alert")
              /\ IF r.raised = "none" THEN CycleReturns(r.value)
                 ELSE CycleRaises(r.raised)
    /\ UNCHANGED <<flags, caller, failure, current_day, queries, polls,
                   last_sleep, otherVars>>

\* run_check: the error notification inside try / except: pass, then
\* return False
RcErrorNotify ==
    /\ at = "rc_error_notify"
    /\ posts' = posts + 1
    /\ \E outcome \in SlackOutcomes :
          /\ raised' = Raise(outcome, "rc_error_notify")
          /\ IF outcome = "ok" \/ Catches("bare", outcome)
             THEN CycleReturns(FALSE)
             ELSE CycleUnwinds(outcome)
    /\ send' = NoSend
    /\ UNCHANGED <<flags, caller, failure, current_day, queries, polls,
                   last_sleep, otherVars>>

\* schedule.run_pending(): nothing is due
RunPendingNothingDue ==
    /\ at = "run_pending"
    /\ at' = "sleep"
    /\ send' = NoSend
    /\ raised' = NoRaise
    /\ UNCHANGED <<flags, caller, exit_code, failure, cycleVars, loopVars,
                   otherVars>>

\* schedule.run_pending(): a run_check job is due
RunPendingCheck ==
    /\ at = "run_pending"
    /\ polls < MaxPolls
    /\ at' = "rc_weekend"
    /\ caller' = "scheduled"
    /\ current_day' = "unread"
    /\ queries' = 0
    /\ posts' = 0
    /\ result' = "none"
    /\ send' = NoSend
    /\ raised' = NoRaise
    /\ UNCHANGED <<flags, exit_code, failure, loopVars, otherVars>>

\* schedule.run_pending(): a run_summary job is due; run_summary catches
\* Exception and its return value is dropped
RunPendingSummary ==
    /\ at = "run_pending"
    /\ \E outcome \in Outcomes, slack \in SlackOutcomes :
          LET called == outcome = "ok"
              r == BotSendSummary(slack)
              escaped == IF ~called
                         THEN (IF Catches("Exception", outcome) THEN "none"
                               ELSE outcome)
                         ELSE IF Catches("Exception", r.raised) THEN "none"
                         ELSE r.raised
          IN  /\ send' = IF called THEN r.send ELSE NoSend
              /\ raised' = IF called THEN Raise(slack, "run_summary")
                           ELSE Raise(outcome, "run_summary")
              /\ IF escaped = "none"
                 THEN at' = "sleep" /\ UNCHANGED exit_code
                 ELSE /\ at' = LoopHandler(escaped).at
                      /\ exit_code' = LoopHandler(escaped).exit_code
    /\ UNCHANGED <<flags, caller, failure, cycleVars, loopVars, otherVars>>

\* schedule.run_pending(): an exception leaves a job, or an interrupt
\* arrives while polling
RunPendingRaises ==
    /\ at = "run_pending"
    /\ \E exc \in {"Exception", "KeyboardInterrupt"} :
          /\ raised' = Raise(exc, "run_pending")
          /\ at' = LoopHandler(exc).at
          /\ exit_code' = LoopHandler(exc).exit_code
    /\ send' = NoSend
    /\ UNCHANGED <<flags, caller, failure, cycleVars, loopVars, otherVars>>

\* time.sleep(60) of the loop
Sleep ==
    /\ at = "sleep"
    /\ polls < MaxPolls
    /\ polls' = polls + 1
    /\ last_sleep' = PollInterval
    /\ \E outcome \in SleepOutcomes :
          /\ raised' = Raise(outcome, "sleep")
          /\ IF outcome = "ok"
             THEN at' = "run_pending" /\ UNCHANGED exit_code
             ELSE /\ at' = LoopHandler(outcome).at
                  /\ exit_code' = LoopHandler(outcome).exit_code
    /\ send' = NoSend
    /\ UNCHANGED <<flags, caller, failure, cycleVars, initial_check, otherVars>>

\* time.sleep(300) in the loop's except Exception clause; an interrupt
\* raised there leaves start_monitoring
Backoff ==
    /\ at = "backoff"
    /\ polls < MaxPolls
    /\ polls' = polls + 1
    /\ last_sleep' = BackoffInterval
    /\ \E outcome \in SleepOutcomes :
          /\ raised' = Raise(outcome, "backoff")
          /\ IF outcome = "ok"
             THEN at' = "run_pending" /\ UNCHANGED exit_code
             ELSE /\ at' = MainDaemonHandler(outcome).at
                  /\ exit_code' = MainDaemonHandler(outcome).exit_code
    /\ send' = NoSend
    /\ UNCHANGED <<flags, caller, failure, cycleVars, initial_check, otherVars>>

InitMain ==
    /\ flags \in SUBSET ActionFlags
    /\ enable_weekend_monitoring \in BOOLEAN
    /\ at = "parse"
    /\ caller = "none"
    /\ exit_code = 0
    /\ failure = "none"
    /\ current_day = "unread"
    /\ queries = 0
    /\ posts = 0
    /\ result = "none"
    /\ send = NoSend
    /\ raised = NoRaise
    /\ polls = 0
    /\ last_sleep = 0
    /\ initial_check = "not_started"
    /\ SettingsInputsIdle
    /\ check_interval_hours = DefaultCheckInterval
    /\ AlertIdle
    /\ AnomalyIdle
    /\ FilterIdle
    /\ QueryIdle
    /\ credentials \in SUBSET RequiredCredentials
    /\ SchedIdle
    /\ api = "unused"
    /\ billing = "unused"
    /\ query_results = <<>>
    /\ service_thresholds = <<>>
    /\ service_details = <<>>

NextMain ==
    \/ MainNoAction
    \/ InitBot
    \/ RunTest
    \/ OneShotCheckCosts
    \/ CheckOnceDeliver
    \/ SummaryDeliver
    \/ StartMonitoring
    \/ RcWeekendTest
    \/ RcCheckCosts
    \/ RcServiceCosts
    \/ RcSendAlert
    \/ RcErrorNotify
    \/ RunPendingNothingDue
    \/ RunPendingCheck
    \/ RunPendingSummary
    \/ RunPendingRaises
    \/ Sleep
    \/ Backoff

SpecMain == InitMain /\ [][NextMain]_vars

\* C15: the process exits with code 0 on success and with code 1 on every
\* failure path: no action flag, failed initialization, failed connection
\* test, failed cost check, failed alert or summary delivery in the
\* one-shot modes, a daemon whose startup connection test failed.
C15_ExitCodeTellsFailure ==
    at = "exited" => exit_code = (IF failure = "none" THEN 0 ELSE 1)

\* C16: when the daemon starts, one run_check runs before the loop's first
\* sleep; afterwards the daemon only alternates between polling for due
\* cycles and sleeping, and nothing but an interrupt ends it.
C16_InitialCheckThenAlternate ==
    /\ []((at \in LoopPositions \/ polls > 0) => initial_check = "done")
    /\ [][/\ (at = "sleep" /\ at' # "exited") => at' = "run_pending"
          /\ (at = "run_pending" /\ at' # "exited")
                => at' \in {"sleep", "backoff", "rc_weekend"}
          /\ (at \in CyclePositions /\ caller = "scheduled"
                /\ at' \notin CyclePositions /\ at' # "exited")
                => at' \in {"sleep", "backoff"}
          /\ (at \in LoopPositions \cup CyclePositions /\ at' = "exited")
                => raised'.exc = "KeyboardInterrupt"]_vars

C16_Witness ==
    /\ SelectedAction(flags) = "daemon"
    /\ polls = 2
    /\ at = "sleep"
    /\ caller = "scheduled"
    /\ result # "none"
    /\ initial_check = "done"

\* C17: an exception other than an interrupt that a scheduled job raises
\* inside the polling loop does not end the daemon: the loop catches it,
\* sleeps the back-off interval of 300 s, longer than the 60 s poll, and
\* polls again.
C17_JobExceptionBacksOff ==
    [][/\ (at = "run_pending" /\ raised'.exc = "Exception"
              /\ raised'.at = "run_pending")
             => (at' = "backoff" /\ exit_code' = exit_code)
       /\ (at = "backoff" /\ raised'.exc = "none")
             => /\ at' = "run_pending"
                /\ last_sleep' = BackoffInterval
                /\ BackoffInterval > PollInterval]_vars

C17_Witness ==
    /\ at = "run_pending"
    /\ last_sleep = BackoffInterval
    /\ raised = NoRaise
    /\ exit_code = 0

\* C18: an interrupt delivered anywhere while the daemon runs (during a
\* cycle, the normal sleep, the back-off sleep, or the posting of the
\* error notification) ends the loop and the process exits with code 0.
C18_InterruptStopsDaemon ==
    raised.exc = "KeyboardInterrupt" => (at = "exited" /\ exit_code = 0)

\* C19: with weekend monitoring disabled, a run_check that reads Saturday
\* or Sunday returns True having issued no billing query and posted no
\* message; the weekend test comes before any cost query of the cycle.
C19_WeekendSkipsCycle ==
    /\ (~enable_weekend_monitoring /\ current_day \in Weekend)
          => /\ queries = 0
             /\ posts = 0
             /\ result = "True"
             /\ at \notin CyclePositions
    /\ at = "rc_weekend" => (queries = 0 /\ posts = 0)

C19_Witness ==
    /\ ~enable_weekend_monitoring
    /\ current_day = "Sunday"
    /\ caller = "scheduled"
    /\ at = "sleep"
    /\ result = "True"

\* C20: a failure of the messaging API in send_cost_alert,
\* send_service_specific_alert or send_cost_summary is not raised to the
\* caller: the call returns False, and run_check and the polling loop go on.
C20_SendFailureReturnsFalse ==
    send.outcome \in ApiFailures =>
        /\ send.raised = "none"
        /\ ~send.value
        /\ raised.exc = send.outcome
        /\ SelectedAction(flags) = "daemon"
              => /\ at \in {"rc_send_alert", "run_pending", "sleep"}
                 /\ exit_code = 0
                 /\ send.fn = "send_cost_alert" => result = "False"

C20_Witness ==
    /\ SelectedAction(flags) = "daemon"
    /\ send.fn = "send_cost_alert"
    /\ send.outcome = "SlackApiError"
    /\ caller = "scheduled"
    /\ at = "sleep"

\* ---------------------------------------------------------------------
\* One run_check cycle with its data: the billing queries of check_costs,
\* the service check and the alert decision
\* ---------------------------------------------------------------------

BillingQueries == {"get_current_month_cost", "get_daily_costs",
                   "get_service_specific_costs", "get_resource_level_costs",
                   "get_cost_forecast", "check_cost_anomalies"}

\* how a call of the billing API ends
ApiOutcomes == {"ok", "ClientError"}

\* the one resource the billing API reports
ReportedResource == "i-0abc"

\* a quiet fortnight and one whose second week costs two and a half times
\* the first
QuietDays == Flat(2 * WeekDays, 10)
SpikeDays == Flat(WeekDays, 10) \o Flat(WeekDays, 25)

Billings ==
    [month_cost : {0, DefaultThreshold + 20},
     service_cost : {0, DefaultThreshold + 20},
     daily : {QuietDays, SpikeDays}]

\* alert levels with the defaults, and with a warning cutoff of zero
CycleAlertLevels ==
    {DefaultAlertLevels, ParseAlertLevels(DefaultCritical, 0, 0)}

\* {} and []: a mapping is a function, the empty one is the empty tuple
EmptyMapping == <<>>
EmptyList == <<>>

QueryCallPropagating(outcome, value, empty) ==
    [raised |-> IF outcome = "ok" THEN "none" ELSE outcome,
     value |-> IF outcome = "ok" THEN value ELSE empty]

\* the try / except Exception of a query method: the value computed from
\* the response, or the empty result the except clause returns
QueryCall(outcome, value, empty) ==
    IF outcome = "ok" THEN [raised |-> "none", value |-> value]
    ELSE IF Catches("Exception", outcome) THEN [raised |-> "none", value |-> empty]
    ELSE [raised |-> outcome, value |-> empty]

\* the entry get_service_specific_costs builds for one service
ServiceDetail(total_cost, service_threshold) ==
    [total_cost |-> total_cost,
     threshold |-> service_threshold,
     threshold_exceeded |-> total_cost > service_threshold,
     percentage_of_threshold |->
        IF service_threshold > 0 THEN Percentage(total_cost, service_threshold)
        ELSE [num |-> 0, den |-> 1]]

GetCurrentMonthCost(outcome, b) ==
    QueryCall(outcome,
              [total |-> b.month_cost,
               breakdown |-> [s \in {ReportedService} |-> b.month_cost]],
              [total |-> 0, breakdown |-> EmptyMapping])

GetDailyCosts(outcome, b) == QueryCall(outcome, b.daily, EmptyList)

\* the elements of a list
Elements(list) == {list[i] : i \in DOMAIN list}

\* Config.get_service_threshold: the mapping is asked for the lower-cased
\* name, its keys are as they were written
GetServiceThreshold(service_name, thresholds, global) ==
    IF Lower(service_name) \in DOMAIN thresholds
    THEN thresholds[Lower(service_name)]
    ELSE global

\* one query per service of the enabled list; b.service_cost is what the
\* API reports for each of them
GetServiceSpecificCosts(outcome, b, services, thresholds, global) ==
    QueryCall(outcome,
              [s \in Elements(services) |->
                  ServiceDetail(b.service_cost,
                                GetServiceThreshold(s, thresholds, global))],
              EmptyMapping)

GetResourceLevelCosts(outcome, b) ==
    QueryCall(outcome, [r \in {ReportedResource} |-> b.service_cost], EmptyMapping)

GetCostForecast(outcome, b) ==
    QueryCall(outcome, [forecasted_cost |-> b.month_cost], EmptyMapping)

\* check_cost_anomalies: its own get_daily_costs(30), then the heuristic
CheckCostAnomaliesCall(outcome, b, sensitivity, enabled) ==
    LET daily == GetDailyCosts(outcome, b)
    IN  [raised |-> daily.raised,
         value |-> CheckCostAnomaliesResult(daily.value, sensitivity, enabled).anomalies]

\* the empty result of each query
EmptyResult(q) ==
    IF q = "get_current_month_cost" THEN [total |-> 0, breakdown |-> EmptyMapping]
    ELSE IF q \in {"get_daily_costs", "check_cost_anomalies"} THEN EmptyList
    ELSE EmptyMapping

\* the queries of check_costs, in the order of the calls
QueryResults(a, b, services, thresholds, threshold, sensitivity, enabled) ==
    [q \in BillingQueries |->
        CASE q = "get_current_month_cost" -> GetCurrentMonthCost(a[q], b)
          [] q = "get_daily_costs" -> GetDailyCosts(a[q], b)
          [] q = "get_service_specific_costs" ->
                GetServiceSpecificCosts(a[q], b, services, thresholds, threshold)
          [] q = "get_resource_level_costs" -> GetResourceLevelCosts(a[q], b)
          [] q = "check_cost_anomalies" ->
                CheckCostAnomaliesCall(a[q], b, sensitivity, enabled)
          [] OTHER -> GetCostForecast(a[q], b)]

\* whether some service of the details is over its threshold
AnyServiceExceeded(details) ==
    \E s \in DOMAIN details : details[s].threshold_exceeded

\* the services check_service_specific_costs alerts on
ServicesToAlert(details) ==
    {s \in DOMAIN details :
        \/ details[s].threshold_exceeded
        \/ PctGE(details[s].percentage_of_threshold, 80)}

\* run_check: cost_data = self.check_costs()
CycleCheckCosts ==
    /\ at = "rc_check_costs"
    /\ query_results' =
          QueryResults(api, billing,
                       GetEnabledServicesList(enabled_services, disabled_services),
                       service_thresholds, cost_threshold,
                       anomaly_sensitivity, enable_anomaly_detection)
    /\ queries' = queries + Cardinality(BillingQueries)
    /\ LET escaped == {q \in BillingQueries : query_results'[q].raised # "none"}
           data == CheckCostsResult(
                      query_results'["get_current_month_cost"].value.total,
                      cost_threshold,
                      query_results'["check_cost_anomalies"].value # EmptyList,
                      AnyServiceExceeded(
                          query_results'["get_service_specific_costs"].value))
       IN  IF escaped # {}
           THEN /\ cost_data' = [status |-> "raised", error |-> "ClientError"]
                /\ raised' = Raise("ClientError", "rc_check_costs")
                /\ at' = "rc_error_notify"
           ELSE /\ cost_data' = data
                /\ raised' = IF data.status = "ok" THEN NoRaise
                             ELSE Raise(data.error, "rc_check_costs")
                /\ at' = IF data.status = "ok" THEN "rc_service_costs"
                         ELSE "rc_error_notify"
    /\ UNCHANGED <<pc, cost_threshold, alert_levels, alert>>
    /\ UNCHANGED <<flags, caller, exit_code, failure, current_day, posts, result,
                   send, loopVars>>
    /\ UNCHANGED <<api, billing, service_thresholds, service_details, credentials,
                   schedVars>>
    /\ UNCHANGED <<anomalyVars, filterVars, queryVars, settingsVars>>

\* run_check: service_alerts = self.check_service_specific_costs()
CycleServiceCosts ==
    /\ at = "rc_service_costs"
    /\ service_details' =
          GetServiceSpecificCosts(
              api["get_service_specific_costs"], billing,
              GetEnabledServicesList(enabled_services, disabled_services),
              service_thresholds, cost_threshold).value
    /\ queries' = queries + 1
    /\ posts' = posts + Cardinality(ServicesToAlert(service_details'))
    /\ \E outcome \in SlackOutcomes \ {"KeyboardInterrupt"} :
          send' = IF ServicesToAlert(service_details') # {}
                  THEN SendServiceSpecificAlertCall(outcome) ELSE NoSend
    /\ raised' = NoRaise
    /\ at' = "rc_send_alert"
    /\ UNCHANGED alertVars
    /\ UNCHANGED <<flags, caller, exit_code, failure, current_day, result, loopVars>>
    /\ UNCHANGED <<api, billing, query_results, service_thresholds, credentials,
                   schedVars>>
    /\ UNCHANGED <<anomalyVars, filterVars, queryVars, settingsVars>>

\* run_check: alert_success = self.send_alert(cost_data); return it
CycleSendAlert ==
    /\ at = "rc_send_alert"
    /\ \E slack_ok \in BOOLEAN :
          alert' = IF ShouldAlert(cost_data, alert_levels)
                   THEN SendCostAlert(cost_data.current_cost, cost_data.threshold,
                                      alert_levels, slack_ok)
                   ELSE [status |-> "not_needed", level |-> "none", error |-> "none"]
    /\ posts' = IF ShouldAlert(cost_data, alert_levels) THEN posts + 1 ELSE posts
    /\ result' = BoolWord(alert'.status \in {"posted", "not_needed"})
    /\ send' = NoSend
    /\ raised' = NoRaise
    /\ at' = "returned"
    /\ UNCHANGED <<pc, cost_threshold, alert_levels, cost_data>>
    /\ UNCHANGED <<flags, caller, exit_code, failure, current_day, queries, loopVars>>
    /\ UNCHANGED dataVars
    /\ UNCHANGED <<anomalyVars, filterVars, queryVars, settingsVars>>

\* run_check: except Exception: the error notification, return False
CycleErrorNotify ==
    /\ at = "rc_error_notify"
    /\ posts' = posts + 1
    /\ result' = BoolWord(FALSE)
    /\ alert' = [status |-> "error_notified", level |-> "none", error |-> raised.exc]
    /\ send' = NoSend
    /\ raised' = NoRaise
    /\ at' = "returned"
    /\ UNCHANGED <<pc, cost_threshold, alert_levels, cost_data>>
    /\ UNCHANGED <<flags, caller, exit_code, failure, current_day, queries, loopVars>>
    /\ UNCHANGED dataVars
    /\ UNCHANGED <<anomalyVars, filterVars, queryVars, settingsVars>>

InitCycle ==
    /\ cost_threshold \in Thresholds
    /\ alert_levels \in CycleAlertLevels
    /\ api \in [BillingQueries -> ApiOutcomes]
    /\ billing \in Billings
    /\ pc = "configured"
    /\ cost_data = NoData
    /\ alert = NoAlert
    /\ at = "rc_check_costs"
    /\ caller = "initial"
    /\ flags = {"daemon"}
    /\ exit_code = 0
    /\ failure = "none"
    /\ current_day = "Monday"
    /\ queries = 0
    /\ posts = 0
    /\ result = "none"
    /\ send = NoSend
    /\ raised = NoRaise
    /\ polls = 0
    /\ last_sleep = 0
    /\ initial_check = "running"
    /\ query_results = <<>>
    /\ service_thresholds = <<>>
    /\ service_details = <<>>
    /\ credentials = RequiredCredentials
    /\ SchedIdle
    /\ enabled_services = <<AllName>>
    /\ disabled_services = <<>>
    /\ resource_arns = <<>>
    /\ excluded_arns = <<>>
    /\ ret = [op |-> "none"]
    /\ AnomalyIdle
    /\ QueryIdle
    /\ SettingsIdle

NextCycle ==
    \/ CycleCheckCosts
    \/ CycleServiceCosts
    \/ CycleSendAlert
    \/ CycleErrorNotify

SpecCycle == InitCycle /\ [][NextCycle]_vars

C30_OutageLooksLikeZeroSpend ==
    (/\ at = "returned"
     /\ cost_threshold > 0
     /\ alert_levels.warning > 0
     /\ \A q \in BillingQueries : api[q] # "ok")
        => /\ result = "True"
           /\ posts = 0
           /\ alert.status = "not_needed"
           /\ cost_data.status = "ok"
           /\ cost_data.current_cost = 0
           /\ ~cost_data.anomalies
           /\ service_details = EmptyMapping

C30_Witness ==
    /\ at = "returned"
    /\ cost_threshold > 0
    /\ alert_levels.warning > 0
    /\ \A q \in BillingQueries : api[q] # "ok"
    /\ billing.month_cost > cost_threshold
    /\ billing.daily = SpikeDays
    /\ result = "True"

\* C22: when a required credential or token (Slack bot token, AWS access
\* key id, AWS secret access key) is missing, the resolution of the
\* settings fails at startup: no billing query and no chat post is ever
\* made, and the process exits with a non-zero code.
C22_MissingCredentialIsFatal ==
    credentials # RequiredCredentials =>
        /\ at \in {"parse", "exited"}
        /\ at = "exited" => (exit_code # 0 /\ failure \in {"init", "no_action"})
        /\ queries = 0
        /\ posts = 0
        /\ send = NoSend

C22_Witness ==
    /\ credentials = {"SLACK_BOT_TOKEN", "AWS_ACCESS_KEY_ID"}
    /\ flags = {"daemon"}
    /\ at = "exited"
    /\ failure = "init"
    /\ exit_code = 1

\* ---------------------------------------------------------------------
\* Per-service thresholds: get_service_threshold, the entry
\* get_service_specific_costs builds and the level of the service alert
\* ---------------------------------------------------------------------

\* the names a monitored service and a key of SERVICE_THRESHOLDS can have
MonitoredServices == {<<"e", "c", "2">>, ReportedService, <<"S", "3">>}
ThresholdKeys == {<<"e", "c", "2">>, ReportedService}

\* the amounts a per-service threshold can have
ServiceAmounts == {-40, 0, 40}

\* SERVICE_THRESHOLDS / --service-thresholds: json.loads keeps the keys as
\* they are written
ServiceThresholdMaps == UNION {[K -> ServiceAmounts] : K \in SUBSET ThresholdKeys}

ServiceCosts == {0, 30, 50}

\* send_service_specific_alert: the level, from the percentage of the entry
ServiceAlertLevel(p) ==
    IF PctGE(p, 100) THEN "critical"
    ELSE IF PctGE(p, 80) THEN "warning"
    ELSE "info"

\* get_service_specific_costs for the enabled services
ThresholdGetServiceCosts ==
    /\ at = "rc_check_costs"
    /\ service_details' =
          GetServiceSpecificCosts(
              "ok", billing,
              GetEnabledServicesList(enabled_services, disabled_services),
              service_thresholds, cost_threshold).value
    /\ at' = "rc_service_costs"
    /\ UNCHANGED <<alertVars, anomalyVars, filterVars, queryVars, settingsVars>>
    /\ UNCHANGED <<flags, caller, exit_code, failure, cycleVars, send, raised, loopVars>>
    /\ UNCHANGED <<api, billing, query_results, service_thresholds, credentials,
                   schedVars>>

\* check_service_specific_costs: the alert for the service, when its entry
\* asks for one
ThresholdServiceAlert ==
    /\ at = "rc_service_costs"
    /\ LET s == enabled_services[1]
       IN  alert' = IF s \in ServicesToAlert(service_details)
                    THEN [status |-> "posted",
                          level |-> ServiceAlertLevel(
                                       service_details[s].percentage_of_threshold),
                          error |-> "none"]
                    ELSE [status |-> "not_needed", level |-> "none", error |-> "none"]
    /\ posts' = posts + Cardinality(ServicesToAlert(service_details))
    /\ at' = "rc_send_alert"
    /\ UNCHANGED <<pc, cost_threshold, alert_levels, cost_data>>
    /\ UNCHANGED <<anomalyVars, filterVars, queryVars, settingsVars, dataVars>>
    /\ UNCHANGED <<flags, caller, exit_code, failure, current_day, queries, result,
                   send, raised, loopVars>>

InitThreshold ==
    /\ \E s \in MonitoredServices : enabled_services = <<s>>
    /\ service_thresholds \in ServiceThresholdMaps
    /\ cost_threshold \in Thresholds
    /\ \E c \in ServiceCosts :
          billing = [month_cost |-> c, service_cost |-> c, daily |-> QuietDays]
    /\ api = [q \in BillingQueries |-> "ok"]
    /\ query_results = <<>>
    /\ service_details = <<>>
    /\ credentials = RequiredCredentials
    /\ SchedIdle
    /\ pc = "configured"
    /\ alert_levels = DefaultAlertLevels
    /\ cost_data = NoData
    /\ alert = NoAlert
    /\ at = "rc_check_costs"
    /\ caller = "initial"
    /\ flags = {"daemon"}
    /\ exit_code = 0
    /\ failure = "none"
    /\ current_day = "Monday"
    /\ queries = 0
    /\ posts = 0
    /\ result = "none"
    /\ send = NoSend
    /\ raised = NoRaise
    /\ polls = 0
    /\ last_sleep = 0
    /\ initial_check = "running"
    /\ disabled_services = <<>>
    /\ resource_arns = <<>>
    /\ excluded_arns = <<>>
    /\ ret = [op |-> "none"]
    /\ AnomalyIdle
    /\ QueryIdle
    /\ SettingsIdle

NextThreshold ==
    \/ ThresholdGetServiceCosts
    \/ ThresholdServiceAlert

SpecThreshold == InitThreshold /\ [][NextThreshold]_vars

\* C23: for every service name s, as the billing API reports it or as the
\* enabled list has it: when a per-service threshold is configured for s,
\* that override is the threshold of its entry, and threshold_exceeded and
\* percentage_of_threshold are computed against it; when none is
\* configured, the global threshold is used.
C23_ServiceThresholdOverride ==
    \A s \in DOMAIN service_details :
        LET d == service_details[s]
        IN  /\ s \in DOMAIN service_thresholds => d.threshold = service_thresholds[s]
            /\ (\A k \in DOMAIN service_thresholds : ~SameNameIgnoringCase(k, s))
                  => d.threshold = cost_threshold
            /\ d.threshold_exceeded = (d.total_cost > d.threshold)
            /\ d.threshold > 0
                  => d.percentage_of_threshold = Percentage(d.total_cost, d.threshold)

\* C24: a service whose effective threshold is zero or negative gets the
\* guarded rule of the global threshold: no division is made and the
\* service is classified critical, in its entry and in the level its alert
\* shows.
C24_NonPositiveServiceThresholdIsCritical ==
    \A s \in DOMAIN service_details :
        service_details[s].threshold <= 0 =>
            /\ service_details[s].percentage_of_threshold.den # 0
            /\ ServiceAlertLevel(service_details[s].percentage_of_threshold)
                  = "critical"
            /\ at = "rc_send_alert" => (alert.status = "posted" /\ alert.level = "critical")

\* ---------------------------------------------------------------------
\* The recommendations of a cost alert
\* ---------------------------------------------------------------------

\* _get_recommendations: which of the three fixed groups of tier-dependent
\* strings is chosen for a percentage
GetRecommendations(p) ==
    IF PctGE(p, 100) THEN "critical"
    ELSE IF PctGE(p, 80) THEN "warning"
    ELSE "normal"

\* C25: in every cost alert the tier-dependent recommendations are those of
\* the tier the alert was classified in with the configured cutoffs:
\* critical recommendations exactly when the alert is critical, warning
\* ones exactly when it is warning, whatever the alert levels are.
C25_RecommendationsMatchTier ==
    (pc = "alerted" /\ alert.status = "posted") =>
        LET tier == GetRecommendations(
                        Percentage(cost_data.current_cost, cost_data.threshold))
        IN  /\ tier = "critical" <=> alert.level = "critical"
            /\ tier = "warning" <=> alert.level = "warning"

\* ten times the multiplier the claim C26 gives for a sensitivity
StatedMultiplier10(sensitivity) ==
    IF sensitivity = "low" THEN 20
    ELSE IF sensitivity = "high" THEN 12
    ELSE 15

\* C26: check_cost_anomalies uses the multiplier 2.0 for the sensitivity
\* "low", 1.2 for "high", and 1.5 for "medium" and for every other value:
\* the daily spikes it returns are those of that multiplier.
C26_SensitivityMultiplier ==
    (anomaly_status = "ok" /\ enable_anomaly_detection
          /\ Len(daily_costs) >= 2 * WeekDays)
          => DailySpikeDays =
                {d \in (Len(daily_costs) - WeekDays + 2)..Len(daily_costs) :
                    daily_costs[d] * 10
                       > daily_costs[d - 1] * StatedMultiplier10(anomaly_sensitivity)}

C26_Witness ==
    /\ anomaly_status = "ok"
    /\ enable_anomaly_detection
    /\ anomaly_sensitivity = "extreme"
    /\ Len(daily_costs) >= 2 * WeekDays
    /\ \E d \in DailySpikeDays :
          /\ daily_costs[d] * 10 > daily_costs[d - 1] * 15
          /\ daily_costs[d] * 10 <= daily_costs[d - 1] * 20

\* C28: every service returned by get_enabled_services_list() satisfies
\* is_service_enabled(), whatever the enabled and disabled lists are: a
\* service that is in both lists is not returned, and so is neither queried
\* by get_service_specific_costs nor put in the Cost Explorer service filter.
C28_EnabledListHonoursDisabled ==
    ret.op = "get_enabled_services_list" =>
        /\ \A i \in DOMAIN ret.value :
              IsServiceEnabled(ret.value[i], enabled_services, disabled_services)
        /\ \A f \in Elements(GetCostExplorerFilters(enabled_services, <<>>)) :
              \A i \in DOMAIN f.values :
                 IsServiceEnabled(f.values[i], enabled_services, disabled_services)

\* ---------------------------------------------------------------------
\* The daemon's schedule: schedule_monitoring registers the jobs,
\* the loop of start_monitoring polls schedule.run_pending() once a minute
\* ---------------------------------------------------------------------
Frequencies == {"daily", "weekly", "monthly", "hourly"}

Job(fn, trigger) == [fn |-> fn, trigger |-> trigger]

\* the jobs of the notification frequency
FrequencyJobs(frequency) ==
    CASE frequency = "daily" ->
            {Job("run_check", "day 09:00"), Job("run_check", "day 18:00"),
             Job("run_summary", "monday 08:00")}
      [] frequency = "weekly" ->
            {Job("run_check", "monday 09:00"), Job("run_summary", "monday 09:30")}
      [] frequency = "monthly" -> {Job("_monthly_check", "day 09:00")}
      [] OTHER -> {}

\* what schedule_monitoring registers
ScheduledJobs(frequency, detailed) ==
    FrequencyJobs(frequency)
       \cup {Job("run_check", "every interval")}
       \cup (IF detailed
             THEN {Job("check_service_specific_costs", "every interval")}
             ELSE {})

MondayTriggers == {"monday 08:00", "monday 09:00", "monday 09:30"}

\* the jobs that can be due on a day: the Monday jobs on Mondays, the
\* others on every day
CanBeDue(job, day) == job.trigger \in MondayTriggers => day.weekday = "Monday"

NextWeekday(d) ==
    CASE d = "Monday" -> "Tuesday"
      [] d = "Tuesday" -> "Wednesday"
      [] d = "Wednesday" -> "Thursday"
      [] d = "Thursday" -> "Friday"
      [] d = "Friday" -> "Saturday"
      [] d = "Saturday" -> "Sunday"
      [] OTHER -> "Monday"

Dates == [weekday : Days, first_of_month : BOOLEAN]

\* the date a minute (or five) later
LaterDates(day) ==
    {day} \cup {d \in Dates : d.weekday = NextWeekday(day.weekday)
                              /\ (day.first_of_month => ~d.first_of_month)}

\* Mutant: jobs handed to worker threads, started while another one runs.
CanStartThreaded(executing) == TRUE

\* run_pending calls a due job on the loop's own thread: the call returns
\* before run_pending goes on to the next due job
CanStart(executing) == DOMAIN executing = {}

Top(frames) == frames[Len(frames)]
Pop(frames) == SubSeq(frames, 1, Len(frames) - 1)

\* a billing query and a chat post made by a job on a day of the week
Query(job, weekday) == [job |-> job.fn, kind |-> "query", weekday |-> weekday]
Post(job, weekday) == [job |-> job.fn, kind |-> "post", weekday |-> weekday]

\* the function of job j returns or calls: its stack becomes frames
Continue(j, frames) ==
    running' = IF frames # <<>>
               THEN [k \in DOMAIN running |-> IF k = j THEN frames ELSE running[k]]
               ELSE IF DOMAIN running = {j} THEN <<>>
               ELSE [k \in DOMAIN running \ {j} |-> running[k]]

\* job j is called
Call(j) ==
    running' = [k \in DOMAIN running \cup {j} |->
                   IF k = j THEN <<j.fn>> ELSE running[k]]

InitialCheck == Job("run_check", "initial")

schedConfig == <<notification_frequency, enable_detailed_breakdown>>
schedRest == <<alertVars, anomalyVars, filterVars, queryVars, settingsVars,
               mainVars, api, billing, query_results, service_thresholds,
               service_details, credentials>>

\* start_monitoring: test_connections, schedule_monitoring, then the first
\* run_check
ScheduleAndStart ==
    /\ loop = "not_started"
    /\ \E ok \in BOOLEAN, d \in Dates :
          /\ today' = d
          /\ IF ok
             THEN /\ jobs' = ScheduledJobs(notification_frequency,
                                           enable_detailed_breakdown)
                  /\ Call(InitialCheck)
                  /\ loop' = "initial_check"
             ELSE /\ loop' = "exited"
                  /\ UNCHANGED <<jobs, running>>
    /\ UNCHANGED <<due, activity, schedConfig, schedRest>>

\* the first run_check returned: the loop begins
InitialCheckDone ==
    /\ loop = "initial_check"
    /\ DOMAIN running = {}
    /\ loop' = "run_pending_enter"
    /\ UNCHANGED <<jobs, due, running, today, activity, schedConfig, schedRest>>

\* schedule.run_pending() finds the jobs that are due
RunPendingCollect ==
    /\ loop = "run_pending_enter"
    /\ due' \in SUBSET {j \in jobs : CanBeDue(j, today)}
    /\ activity' = {}
    /\ loop' = "run_pending"
    /\ UNCHANGED <<jobs, running, today, schedConfig, schedRest>>

\* run_pending calls the next due job
RunJob ==
    /\ loop = "run_pending"
    /\ CanStart(running)
    /\ \E j \in due :
          /\ due' = due \ {j}
          /\ Call(j)
    /\ UNCHANGED <<jobs, loop, today, activity, schedConfig, schedRest>>

\* run_pending returns
RunPendingDone ==
    /\ loop = "run_pending"
    /\ due = {}
    /\ DOMAIN running = {}
    /\ loop' = "sleep"
    /\ UNCHANGED <<jobs, due, running, today, activity, schedConfig, schedRest>>

\* run_pending raises an Exception: the loop's except clause
RunPendingFails ==
    /\ loop = "run_pending"
    /\ DOMAIN running = {}
    /\ loop' = LoopHandler("Exception").at
    /\ due' = {}
    /\ UNCHANGED <<jobs, running, today, activity, schedConfig, schedRest>>

\* time.sleep(60) and time.sleep(300): the date may change, an interrupt
\* ends the loop
LoopSleep ==
    /\ loop \in {"sleep", "backoff"}
    /\ \E outcome \in SleepOutcomes :
          IF outcome = "ok"
          THEN /\ loop' = "run_pending_enter"
               /\ today' \in LaterDates(today)
          ELSE /\ loop' = "exited"
               /\ UNCHANGED today
    /\ UNCHANGED <<jobs, due, running, activity, schedConfig, schedRest>>

\* run_check: the weekend test, then the queries of check_costs and of the
\* service check, and the alert or the error notification when there is one
JobRunCheck ==
    /\ \E j \in DOMAIN running :
          /\ Top(running[j]) = "run_check"
          /\ IF WeekendSkip(enable_weekend_monitoring, today.weekday)
             THEN UNCHANGED activity
             ELSE \E posted \in BOOLEAN :
                     activity' = activity \cup {Query(j, today.weekday)}
                                    \cup (IF posted THEN {Post(j, today.weekday)} ELSE {})
          /\ Continue(j, Pop(running[j]))
    /\ UNCHANGED <<jobs, due, loop, today, schedConfig, schedRest>>

\* check_service_specific_costs: one query for each enabled service, one
\* post for each service at 80 % of its threshold or above
JobServiceCheck ==
    /\ \E j \in DOMAIN running :
          /\ Top(running[j]) = "check_service_specific_costs"
          /\ \E posted \in BOOLEAN :
                activity' = activity \cup {Query(j, today.weekday)}
                               \cup (IF posted THEN {Post(j, today.weekday)} ELSE {})
          /\ Continue(j, Pop(running[j]))
    /\ UNCHANGED <<jobs, due, loop, today, schedConfig, schedRest>>

\* run_summary: check_costs, then send_summary unless check_costs raised
JobRunSummary ==
    /\ \E j \in DOMAIN running :
          /\ Top(running[j]) = "run_summary"
          /\ \E posted \in BOOLEAN :
                activity' = activity \cup {Query(j, today.weekday)}
                               \cup (IF posted THEN {Post(j, today.weekday)} ELSE {})
          /\ Continue(j, Pop(running[j]))
    /\ UNCHANGED <<jobs, due, loop, today, schedConfig, schedRest>>

\* _monthly_check: on the first day of the month run_check, then run_summary
JobMonthlyCheck ==
    /\ \E j \in DOMAIN running :
          LET frames == running[j]
          IN  CASE Top(frames) = "_monthly_check" ->
                      IF today.first_of_month
                      THEN Continue(j, Pop(frames)
                                  \o <<"_monthly_check: run_summary", "run_check">>)
                      ELSE Continue(j, Pop(frames))
                [] Top(frames) = "_monthly_check: run_summary" ->
                      Continue(j, Pop(frames)
                                  \o <<"_monthly_check: return", "run_summary">>)
                [] Top(frames) = "_monthly_check: return" ->
                      Continue(j, Pop(frames))
                [] OTHER -> FALSE
    /\ UNCHANGED <<jobs, due, loop, today, activity, schedConfig, schedRest>>

\* a KeyboardInterrupt while a job runs: no except clause of the jobs
\* catches it, the loop's clause ends the daemon
JobInterrupted ==
    /\ DOMAIN running # {}
    /\ running' = <<>>
    /\ due' = {}
    /\ loop' = LoopHandler("KeyboardInterrupt").at
    /\ UNCHANGED <<jobs, today, activity, schedConfig, schedRest>>

InitSchedule ==
    /\ notification_frequency \in Frequencies
    /\ enable_detailed_breakdown \in BOOLEAN
    /\ enable_weekend_monitoring \in BOOLEAN
    /\ jobs = {}
    /\ due = {}
    /\ running = <<>>
    /\ loop = "not_started"
    /\ today = [weekday |-> "unread", first_of_month |-> FALSE]
    /\ activity = {}
    /\ SettingsInputsIdle
    /\ check_interval_hours = DefaultCheckInterval
    /\ AlertIdle
    /\ AnomalyIdle
    /\ FilterIdle
    /\ QueryIdle
    /\ MainIdle
    /\ api = "unused"
    /\ billing = "unused"
    /\ query_results = <<>>
    /\ service_thresholds = <<>>
    /\ service_details = <<>>
    /\ credentials = RequiredCredentials

NextSchedule ==
    \/ ScheduleAndStart
    \/ InitialCheckDone
    \/ RunPendingCollect
    \/ RunJob
    \/ RunPendingDone
    \/ RunPendingFails
    \/ LoopSleep
    \/ JobRunCheck
    \/ JobServiceCheck
    \/ JobRunSummary
    \/ JobMonthlyCheck
    \/ JobInterrupted

SpecSchedule == InitSchedule /\ [][NextSchedule]_vars

\* the scheduled jobs in execution
RunningJobs == DOMAIN running \cap jobs

\* C27: in daemon mode at most one scheduled job (run_check, run_summary,
\* check_service_specific_costs, _monthly_check) executes at any time: a
\* job runs to completion before the next due job starts, also when several
\* triggers are due at the same poll.
C27_OneJobAtATime ==
    /\ Cardinality(RunningJobs) <= 1
    /\ Cardinality(DOMAIN running) <= 1

\* C27 witness: a job runs while another job of the same poll has already
\* run and a third one is still due
C27_Witness ==
    /\ Cardinality(RunningJobs) = 1
    /\ due # {}
    /\ \E a \in activity : \A j \in RunningJobs : a.job # j.fn

\* C29: with weekend monitoring disabled, no scheduled job (run_check,
\* check_service_specific_costs, run_summary, _monthly_check) of the daemon
\* issues a billing query or posts a chat message on a Saturday or Sunday.
C29_NoWeekendActivity ==
    ~enable_weekend_monitoring =>
        \A a \in activity :
           a.job \in {j.fn : j \in jobs} => a.weekday \notin Weekend

====
